---- MODULE Spec2Model ----
(***************************************************************************)
(* A model of pui, a terminal client of the Pueue task-queue daemon:       *)
(* the UI loop of App::run (src/src/main.rs), the key handlers of          *)
(* App::on_key_event, the selection tracker, the log viewport              *)
(* (LogState) and the part of the renderer (src/src/ui.rs) they rely on.   *)
(*                                                                         *)
(* Strings that the program inspects (filter text, displayed columns, log  *)
(* buffer) are sequences of one-character strings.  Option<T> is a         *)
(* sequence of length at most one.  One step of the model is one iteration *)
(* of the loop of App::run read from the select! onwards: an event is      *)
(* handled and, while the application is running, the next iteration's     *)
(* draw follows.  Hence every state with pc = "loop" is a state            *)
(* immediately after a redraw.                                             *)
(***************************************************************************)
EXTENDS Naturals, Sequences, FiniteSets

VARIABLES
    pc,        \* position of the program: "main" (before the connection), "failed"
               \* (main returned without an App), "new" (App constructed), "loop",
               \* "reconnecting" (the tick arm awaits reconnect), "exited"
    app,       \* the fields of struct App
    term,      \* terminal size [cols, rows] as crossterm::terminal::size() reports it
    last,      \* the event the last iteration handled and what its handler resolved
    calls,     \* the calls the last iteration made to the daemon, with their results
    streams,   \* number of live log connections (PueueClient values of log sessions)
    frame,     \* the UiState of the last frame drawn, None before the first draw
    timer      \* the tick interval and the time since the tick arm last ran

vars == <<pc, app, term, last, calls, streams, frame, timer>>

----------------------------------------------------------------------------
(* Bounds of the model *)

MaxTaskId == 1        \* job ids are 0..MaxTaskId
MaxFilterLen == 1     \* longest filter text typed
MaxLogLen == 2        \* longest log buffer (characters, before tab expansion)
MaxChanges == 1       \* jobs that differ between one snapshot and the next
TickPeriod == 2       \* time units in one tick_rate
MaxBlock == 5         \* longest time a handler keeps the loop, in time units
MaxLate == 7          \* cap of the recorded lateness of a deadline
MaxWraps == 2        \* multiples of 2^16 the line counts reach
CountMargin == 3     \* distance of the line counts from a multiple of 2^16

----------------------------------------------------------------------------
(* Option<T> *)

None == <<>>
Some(x) == <<x>>
IsSome(o) == o /= <<>>
Unwrap(o) == o[1]

(* slice.get(i) with a 0-based index *)
Get(seq, i) == IF i + 1 \in DOMAIN seq THEN Some(seq[i + 1]) ELSE None

Min(a, b) == IF a < b THEN a ELSE b
Max(a, b) == IF a > b THEN a ELSE b

(* u16 arithmetic *)
U16Max == 65535
saturating_add(a, b) == Min(a + b, U16Max)
saturating_sub(a, b) == IF a > b THEN a - b ELSE 0

----------------------------------------------------------------------------
(* Text: characters in ASCII order, comparison, case folding, search *)

Alphabet ==
    << "\t", "\n", " ", "(", ")", "/",
       "0", "1", "2", "3", "4", "5", "6", "7", "8", "9",
       "A", "B", "C", "D", "E", "F", "G", "H", "I", "J", "K", "L", "M",
       "N", "O", "P", "Q", "R", "S", "T", "U", "V", "W", "X", "Y", "Z",
       "a", "b", "c", "d", "e", "f", "g", "h", "i", "j", "k", "l", "m",
       "n", "o", "p", "q", "r", "s", "t", "u", "v", "w", "x", "y", "z" >>

CharSet == {Alphabet[i] : i \in DOMAIN Alphabet}

Ord == [c \in CharSet |-> CHOOSE i \in DOMAIN Alphabet : Alphabet[i] = c]

IsUpper(c) == Ord[c] >= Ord["A"] /\ Ord[c] <= Ord["Z"]

char_to_lowercase(c) == IF IsUpper(c) THEN Alphabet[Ord[c] + (Ord["a"] - Ord["A"])] ELSE c

to_lowercase(s) == [i \in DOMAIN s |-> char_to_lowercase(s[i])]

(* str::contains *)
contains(hay, needle) ==
    \E k \in 0..Len(hay) :
        /\ k + Len(needle) <= Len(hay)
        /\ \A i \in 1..Len(needle) : hay[k + i] = needle[i]

(* Ord for String: bytewise lexicographic *)
RECURSIVE StrLess(_, _)
StrLess(a, b) ==
    IF b = <<>> THEN FALSE
    ELSE IF a = <<>> THEN TRUE
    ELSE IF a[1] /= b[1] THEN Ord[a[1]] < Ord[b[1]]
    ELSE StrLess(Tail(a), Tail(b))

(* the components of a path, the root directory as an empty first component *)
RECURSIVE SplitSlash(_, _)
SplitSlash(s, cur) ==
    IF s = <<>> THEN (IF cur = <<>> THEN <<>> ELSE <<cur>>)
    ELSE IF s[1] = "/" THEN (IF cur = <<>> THEN <<>> ELSE <<cur>>) \o SplitSlash(Tail(s), <<>>)
    ELSE SplitSlash(Tail(s), Append(cur, s[1]))

Components(p) ==
    (IF p /= <<>> /\ p[1] = "/" THEN << <<>> >> ELSE <<>>) \o SplitSlash(p, <<>>)

(* Ord for PathBuf: lexicographic on the components *)
RECURSIVE CompsLess(_, _)
CompsLess(a, b) ==
    IF b = <<>> THEN FALSE
    ELSE IF a = <<>> THEN TRUE
    ELSE IF a[1] /= b[1] THEN StrLess(a[1], b[1])
    ELSE CompsLess(Tail(a), Tail(b))

PathLess(p, q) == CompsLess(Components(p), Components(q))

(* usize::to_string *)
Digits == <<"0", "1", "2", "3", "4", "5", "6", "7", "8", "9">>

RECURSIVE to_string(_)
to_string(n) ==
    IF n < 10 THEN <<Digits[n + 1]>>
    ELSE Append(to_string(n \div 10), Digits[(n % 10) + 1])

----------------------------------------------------------------------------
(* The jobs the daemon may hold.  Command, original command, path, label   *)
(* and priority of a job are fixed by its id; presence and status vary     *)
(* from snapshot to snapshot.                                              *)

TaskIds == 0..MaxTaskId

(* two jobs more, for the tables whose jobs are all queued *)
WideIds == 0..(MaxTaskId + 2)

Commands ==
    << <<"z", "z">>,
       <<"a", "a">>,
       <<"/", "b", "/", "m">> >>

Paths ==
    << <<"/", "h", "o", "m", "e", " ", "u">>,
       <<"/", "h", "o", "m", "e", "/", "u">> >>

TaskCommand(id) == Commands[(id % Len(Commands)) + 1]
TaskPath(id) == Paths[(id % Len(Paths)) + 1]

(* the command as it was queued, before the daemon expanded it *)
TaskOriginalCommand(id) == <<"e", "n", "v", " ">> \o TaskCommand(id)
TaskLabel(id) == IF id % 2 = 0 THEN Some(<<"L">>) ELSE None
TaskPriority(id) == id

Task(id, status) ==
    [ status |-> status, command |-> TaskCommand(id), path |-> TaskPath(id),
      original_command |-> TaskOriginalCommand(id), label |-> TaskLabel(id),
      priority |-> TaskPriority(id) ]

(* the statuses jobs take in the model *)
Statuses == {"Queued", "Running", "Paused", "DoneSuccess"}

(* the characters typed into the filter, and the texts they make *)
FilterChars == {"Q", "z"}

RECURSIVE SeqsOfLen(_, _)
SeqsOfLen(S, n) ==
    IF n = 0 THEN {<<>>} ELSE {Append(r, c) : r \in SeqsOfLen(S, n - 1), c \in S}

SeqsUpTo(S, n) == UNION {SeqsOfLen(S, k) : k \in 0..n}

FilterTexts == SeqsUpTo(FilterChars, MaxFilterLen)

(* filter texts that tell the displayed columns from the full fields *)
ViewFilterTexts == { <<"b">>, <<"o", "m">>, <<"E">>, <<"1">>, <<"p">> }
(* the filter text after the key q in Filter mode *)
QuitFilterTexts == { <<"q">> }

(* State.tasks with the ids D present, statuses drawn from Sts *)
SnapshotsOver(Ids, Sts) ==
    UNION { { [id \in D |-> Task(id, st[id])] : st \in [D -> Sts] } : D \in SUBSET Ids }

----------------------------------------------------------------------------
(* src/src/ui.rs *)

status_display(status) ==
    CASE status = "Locked"      -> <<"L", "o", "c", "k", "e", "d">>
      [] status = "Stashed"     -> <<"S", "t", "a", "s", "h", "e", "d">>
      [] status = "Queued"      -> <<"Q", "u", "e", "u", "e", "d">>
      [] status = "Running"     -> <<"R", "u", "n", "n", "i", "n", "g">>
      [] status = "Paused"      -> <<"P", "a", "u", "s", "e", "d">>
      [] status = "DoneSuccess" -> <<"S", "u", "c", "c", "e", "s", "s">>
      [] status = "DoneFailed"  -> <<"F", "a", "i", "l", "e", "d", " ", "(", "1", ")">>
      [] status = "DoneKilled"  -> <<"K", "i", "l", "l", "e", "d">>

(* Path::file_name of the command, or the command itself *)
command_basename(command) ==
    LET comps == SplitSlash(command, <<>>)
    IN  IF comps = <<>> \/ comps[Len(comps)] = <<".", ".">>
        THEN command
        ELSE comps[Len(comps)]

(* tico::tico: every directory of the path but the last component is cut  *)
(* to its first character                                                 *)
CountSlash(s) == Cardinality({i \in DOMAIN s : s[i] = "/"})

RECURSIVE tico_from(_, _, _, _)
tico_from(s, skip_char, count, sections) ==
    IF s = <<>> THEN <<>>
    ELSE LET c == s[1] IN
         IF c = "/" THEN <<c>> \o tico_from(Tail(s), FALSE, count + 1, sections)
         ELSE IF skip_char /\ count < sections
              THEN tico_from(Tail(s), skip_char, count, sections)
              ELSE <<c>> \o tico_from(Tail(s), TRUE, count, sections)

tico(path) == tico_from(path, FALSE, 0, CountSlash(path))

(* format_task filling the filtered columns with the full fields *)
format_task_full(id, task) ==
    [ id      |-> to_string(id),
      status  |-> status_display(task.status),
      command |-> task.command,
      path    |-> task.path ]

format_task(id, task) ==
    [ id      |-> to_string(id),
      status  |-> status_display(task.status),
      command |-> command_basename(task.command),
      path    |-> tico(task.path) ]

matches_filter(ft, filter) ==
    IF filter = <<>> THEN TRUE
    ELSE LET f == to_lowercase(filter)
         IN  \/ contains(to_lowercase(ft.id), f)
             \/ contains(to_lowercase(ft.status), f)
             \/ contains(to_lowercase(ft.command), f)
             \/ contains(to_lowercase(ft.path), f)

----------------------------------------------------------------------------
(* src/src/main.rs: the view *)

SortFields == {"Id", "Status", "Command", "Path"}

(* the comparator of ids.sort_by *)
TaskLess(tasks, sort_field, a, b) ==
    LET ta == tasks[a]
        tb == tasks[b]
    IN  CASE sort_field = "Id" -> a < b
          [] sort_field = "Status" ->
                LET sa == status_display(ta.status)
                    sb == status_display(tb.status)
                IN  StrLess(sa, sb) \/ (sa = sb /\ a < b)
          [] sort_field = "Command" ->
                StrLess(ta.command, tb.command) \/ (ta.command = tb.command /\ a < b)
          [] sort_field = "Path" ->
                PathLess(ta.path, tb.path) \/ (ta.path = tb.path /\ a < b)

RECURSIVE SortBy(_, _, _)
SortBy(S, tasks, sort_field) ==
    IF S = {} THEN <<>>
    ELSE LET m == CHOOSE x \in S : \A y \in S \ {x} : TaskLess(tasks, sort_field, x, y)
         IN  <<m>> \o SortBy(S \ {m}, tasks, sort_field)

get_sorted_task_ids(state, filter_text, sort_field) ==
    IF ~IsSome(state) THEN <<>>
    ELSE LET tasks == Unwrap(state)
             ids == {id \in DOMAIN tasks : matches_filter(format_task(id, tasks[id]), filter_text)}
         IN  SortBy(ids, tasks, sort_field)

(* get_sorted_task_ids tabulated over the job sets, filter texts and sort *)
(* fields of the model, so that each view is computed once               *)
ViewCache ==
    [ sort_field \in SortFields |->
      [ filter_text \in FilterTexts \cup ViewFilterTexts \cup QuitFilterTexts |->
      [ state \in {None} \cup {Some(s) : s \in SnapshotsOver(TaskIds, Statuses)
                                              \cup SnapshotsOver(WideIds, {"Queued"})} |->
         get_sorted_task_ids(state, filter_text, sort_field) ] ] ]

get_filtered_task_ids(a) == ViewCache[a.sort_field][a.filter_text][a.state]

(* iter().position() *)
Position(seq, x) ==
    IF \E i \in DOMAIN seq : seq[i] = x
    THEN Some((CHOOSE i \in DOMAIN seq : seq[i] = x /\ \A j \in 1..(i - 1) : seq[j] /= x) - 1)
    ELSE None

----------------------------------------------------------------------------
(* src/src/main.rs: the selection tracker *)

(* variant: a tracked id that is found keeps the row it had *)
sync_selection_keeping_row(a, task_ids) ==
    IF task_ids = <<>>
    THEN [a EXCEPT !.table_state = None, !.selected_task_id = None]
    ELSE IF IsSome(a.selected_task_id) /\ IsSome(Position(task_ids, Unwrap(a.selected_task_id)))
         THEN [a EXCEPT !.table_state = IF IsSome(@) THEN @ ELSE Some(0)]
         ELSE [a EXCEPT !.table_state = Some(0),
                        !.selected_task_id = Some(task_ids[1])]

(* variant: a tracked id that is missing leaves the selection on its row,  *)
(* or on the last row of a shorter view                                    *)
sync_selection_nearest_row(a, task_ids) ==
    IF task_ids = <<>>
    THEN [a EXCEPT !.table_state = None, !.selected_task_id = None]
    ELSE IF IsSome(a.selected_task_id) /\ IsSome(Position(task_ids, Unwrap(a.selected_task_id)))
         THEN [a EXCEPT !.table_state = Position(task_ids, Unwrap(a.selected_task_id))]
         ELSE IF IsSome(a.selected_task_id) /\ IsSome(a.table_state)
              THEN [a EXCEPT !.table_state = Some(Min(Unwrap(@), Len(task_ids) - 1)),
                             !.selected_task_id =
                                 Some(task_ids[Min(Unwrap(a.table_state), Len(task_ids) - 1) + 1])]
              ELSE [a EXCEPT !.table_state = Some(0),
                             !.selected_task_id = Some(task_ids[1])]

(* variant: an empty view leaves the selection as it was *)
sync_selection_skipping_empty(a, task_ids) ==
    IF task_ids = <<>>
    THEN a
    ELSE IF IsSome(a.selected_task_id) /\ IsSome(Position(task_ids, Unwrap(a.selected_task_id)))
         THEN [a EXCEPT !.table_state = Position(task_ids, Unwrap(a.selected_task_id))]
         ELSE [a EXCEPT !.table_state = Some(0),
                        !.selected_task_id = Some(task_ids[1])]

sync_selection_with_task_id(a, task_ids) ==
    IF task_ids = <<>>
    THEN [a EXCEPT !.table_state = None, !.selected_task_id = None]
    ELSE IF IsSome(a.selected_task_id)
         THEN LET row == Position(task_ids, Unwrap(a.selected_task_id))
              IN  IF IsSome(row)
                  THEN [a EXCEPT !.table_state = row]
                  ELSE [a EXCEPT !.table_state = Some(0),
                                 !.selected_task_id = Some(task_ids[1])]
         ELSE [a EXCEPT !.table_state = Some(0),
                        !.selected_task_id = Some(task_ids[1])]

update_selected_task_id(a) ==
    LET task_ids == get_filtered_task_ids(a)
    IN  IF IsSome(a.table_state)
        THEN [a EXCEPT !.selected_task_id = Get(task_ids, Unwrap(a.table_state))]
        ELSE a

(* variant: a frame painted without synchronising the selection *)
draw_without_sync(a) == a

(* App::draw.  ui::draw paints from the state and leaves it alone: the    *)
(* table is handed a selection that sync_selection_with_task_id has just  *)
(* made valid for the rows it renders.                                    *)
draw(a) == sync_selection_with_task_id(a, get_filtered_task_ids(a))

----------------------------------------------------------------------------
(* The paragraph widget of the rendering toolkit as both the viewport and  *)
(* the renderer use it: Paragraph::new(text).wrap(Wrap { trim }), counted  *)
(* by line_count(width) and painted by render.  All characters of the      *)
(* model are one column wide.                                              *)

IsWhitespace(c) == c = " "

(* str::lines: split at newlines, no empty last line after a final newline *)
RECURSIVE SplitLines(_, _)
SplitLines(s, cur) ==
    IF s = <<>> THEN (IF cur = <<>> THEN <<>> ELSE <<cur>>)
    ELSE IF s[1] = "\n" THEN <<cur>> \o SplitLines(Tail(s), <<>>)
    ELSE SplitLines(Tail(s), Append(cur, s[1]))

(* Text::from(String): the lines of the text, one empty line for "" *)
TextLines(s) == IF s = <<>> THEN << <<>> >> ELSE SplitLines(s, <<>>)

(* drop leading whitespace that still fits into the finished line *)
RECURSIVE DropFront(_, _)
DropFront(ws, remaining) ==
    IF ws = <<>> \/ remaining < 1 THEN ws ELSE DropFront(Tail(ws), remaining - 1)

(* one symbol through the word wrapper; w is its state *)

(* append finished segment to current line *)
WrapFlush(w, is_ws, width, trim) ==
    IF \/ w.nwp /\ is_ws
       \/ w.line = <<>> /\ trim /\ Len(w.word) + 1 > width
       \/ w.line = <<>> /\ trim /\ Len(w.ws) > width
       \/ w.line = <<>> /\ ~trim /\ Len(w.word) + Len(w.ws) + 1 > width
    THEN [w EXCEPT
            !.line = (IF w.line /= <<>> \/ ~trim THEN w.line \o w.ws ELSE w.line) \o w.word,
            !.ws = <<>>,
            !.word = <<>>]
    ELSE w

(* add finished wrapped line to remaining lines *)
WrapBreak(w, is_ws, width) ==
    IF Len(w.line) >= width \/ Len(w.line) + Len(w.ws) + Len(w.word) >= width
    THEN [w EXCEPT
            !.lines = Append(w.lines, w.line),
            !.line = <<>>,
            !.ws = DropFront(w.ws, saturating_sub(width, Len(w.line))),
            !.broke = TRUE]
    ELSE [w EXCEPT !.broke = FALSE]

(* append symbol to a pending buffer *)
WrapPush(w, c, is_ws) ==
    IF w.broke /\ is_ws /\ w.ws = <<>>
    THEN w
    ELSE [w EXCEPT
            !.ws = IF is_ws THEN Append(w.ws, c) ELSE w.ws,
            !.word = IF is_ws THEN w.word ELSE Append(w.word, c),
            !.nwp = ~is_ws]

WrapStep(w, c, width, trim) ==
    WrapPush(WrapBreak(WrapFlush(w, IsWhitespace(c), width, trim), IsWhitespace(c), width),
             c, IsWhitespace(c))

(* the symbols of a line through the wrapper, one after the other.  The    *)
(* test on w has the state evaluated at every symbol: TLC passes arguments *)
(* unevaluated, and a line of expanded tabs would otherwise nest one       *)
(* pending evaluation per character.                                       *)
RECURSIVE WrapFold(_, _, _, _)
WrapFold(w, s, width, trim) ==
    IF s = <<>> \/ DOMAIN w = {} THEN w
    ELSE WrapFold(WrapStep(w, s[1], width, trim), Tail(s), width, trim)

(* the wrapped rows of one line of text *)
WrapLine(s, width, trim) ==
    LET w0 == [lines |-> <<>>, line |-> <<>>, word |-> <<>>, ws |-> <<>>, nwp |-> FALSE,
               broke |-> FALSE]
        w == WrapFold(w0, s, width, trim)
        l1 == IF w.line = <<>> /\ w.word = <<>> /\ w.ws /= <<>>
              THEN Append(w.lines, <<>>)
              ELSE w.lines
        rest == (IF w.line /= <<>> \/ ~trim THEN w.line \o w.ws ELSE w.line) \o w.word
        l2 == IF rest /= <<>> THEN Append(l1, rest) ELSE l1
    IN  IF l2 = <<>> THEN << <<>> >> ELSE l2

RECURSIVE WrapLines(_, _, _)
WrapLines(ls, width, trim) ==
    IF ls = <<>> THEN <<>>
    ELSE WrapLine(ls[1], width, trim) \o WrapLines(Tail(ls), width, trim)

(* the rows Paragraph::new(s).wrap(Wrap { trim }) has at this width *)
WrappedRows(s, width, trim) ==
    IF width < 1 THEN <<>> ELSE WrapLines(TextLines(s), width, trim)

(* Paragraph::line_count *)
line_count(s, width, trim) == Len(WrappedRows(s, width, trim))

(* String::replace('\t', "        ") *)
TabWidth == 8

RECURSIVE Spaces(_)
Spaces(n) == IF n = 0 THEN <<>> ELSE <<" ">> \o Spaces(n - 1)

RECURSIVE replace_tabs(_)
replace_tabs(s) ==
    IF s = <<>> THEN <<>>
    ELSE (IF s[1] = "\t" THEN Spaces(TabWidth) ELSE <<s[1]>>) \o replace_tabs(Tail(s))

----------------------------------------------------------------------------
(* src/src/ui.rs: the log view.  The paragraph is painted inside a block   *)
(* with all four borders, from row scroll_offset on.                       *)

BorderSize == 2

inner_width(t) == saturating_sub(t.cols, BorderSize)
inner_height(t) == saturating_sub(t.rows, BorderSize)

(* the wrapped rows the renderer lays out for the buffer *)
ui_log_rows(logs, t) == WrappedRows(replace_tabs(logs), inner_width(t), FALSE)

(* indices (0-based) of the wrapped rows that reach the screen *)
ui_visible_rows(logs, scroll_offset, t) ==
    {r \in 0..(Len(ui_log_rows(logs, t)) - 1) :
        r >= scroll_offset /\ r < scroll_offset + inner_height(t)}

----------------------------------------------------------------------------
(* src/src/main.rs: LogState *)

Key(code) == [code |-> code, ch |-> ""]
Char(c) == [code |-> "Char", ch |-> c]

page_height_of(t) == saturating_sub(t.rows, 2)
page_width_of(t) == saturating_sub(t.cols, 2)

(* the terminals and the log buffers of the model *)
TableTerm == [cols |-> 80, rows |-> 24]
LogSizes == {[cols |-> c, rows |-> r] : c \in {3, 5}, r \in {3, 5}}
LogChars == {"A", " ", "\n", "\t"}
LogTexts == SeqsUpTo(LogChars, MaxLogLen)

(* p.line_count(width) of the paragraph of visual_line_count, tabulated    *)
(* for the buffers and the widths of the model                             *)
LineCountCache ==
    [ width \in {Max(page_width_of(t), 1) : t \in LogSizes \cup {TableTerm}} |->
      [ logs \in LogTexts |-> line_count(replace_tabs(logs), width, FALSE) ] ]

(* variant: a count beyond u16 is cut to the largest u16 *)
as_u16_saturating(n) == Min(n, U16Max)

(* usize as u16: the low 16 bits *)
as_u16(n) == n % (U16Max + 1)

(* variant: the lines of the buffer counted without wrapping them *)
visual_line_count_unwrapped(ls, page_width) ==
    as_u16(Len(TextLines(ls.logs)))

visual_line_count(ls, page_width) ==
    LET width == Max(page_width, 1)
    IN  as_u16(LineCountCache[width][ls.logs])

(* the offset that shows the last page of lines visual lines *)
autoscroll_offset(lines, page_height) == saturating_sub(lines, page_height)

(* the offset cut to the largest one that leaves no blank space *)
clamp_offset(scroll_offset, lines, page_height) ==
    LET max_offset == saturating_sub(lines, page_height)
    IN  Min(scroll_offset, max_offset)

update_autoscroll(ls, page_height, page_width) ==
    IF ls.autoscroll
    THEN [ls EXCEPT !.scroll_offset =
                autoscroll_offset(visual_line_count(ls, page_width), page_height)]
    ELSE ls

(* variant: a scroll key that leaves the offset where it was leaves        *)
(* autoscroll as it was                                                    *)
handle_key_match_lazy(ls, key, page_height, page_width) ==
    LET moved(off) == [ls EXCEPT !.scroll_offset = off,
                                 !.autoscroll = IF off = ls.scroll_offset THEN @ ELSE FALSE]
    IN  CASE key = Char("j") \/ key = Key("Down") ->
                Some(moved(saturating_add(ls.scroll_offset, 1)))
          [] key = Char("k") \/ key = Key("Up") ->
                Some(moved(saturating_sub(ls.scroll_offset, 1)))
          [] key = Key("PageUp") \/ key = Char("b") ->
                Some(moved(saturating_sub(ls.scroll_offset, page_height)))
          [] key = Key("PageDown") \/ key = Char(" ") ->
                Some(moved(saturating_add(ls.scroll_offset, page_height)))
          [] key = Key("Home") \/ key = Char("g") -> Some(moved(0))
          [] key = Key("End") \/ key = Char("G") ->
                Some(update_autoscroll([ls EXCEPT !.autoscroll = TRUE], page_height, page_width))
          [] key = Char("d") ->
                Some(moved(saturating_add(ls.scroll_offset, page_height \div 2)))
          [] key = Char("u") ->
                Some(moved(saturating_sub(ls.scroll_offset, page_height \div 2)))
          [] OTHER -> None

(* the match of handle_key: the new state, or None for a key it ignores *)
handle_key_match(ls, key, page_height, page_width) ==
    CASE key = Char("j") \/ key = Key("Down") ->
            Some([ls EXCEPT !.scroll_offset = saturating_add(@, 1), !.autoscroll = FALSE])
      [] key = Char("k") \/ key = Key("Up") ->
            Some([ls EXCEPT !.scroll_offset = saturating_sub(@, 1), !.autoscroll = FALSE])
      [] key = Key("PageUp") \/ key = Char("b") ->
            Some([ls EXCEPT !.scroll_offset = saturating_sub(@, page_height),
                            !.autoscroll = FALSE])
      [] key = Key("PageDown") \/ key = Char(" ") ->
            Some([ls EXCEPT !.scroll_offset = saturating_add(@, page_height),
                            !.autoscroll = FALSE])
      [] key = Key("Home") \/ key = Char("g") ->
            Some([ls EXCEPT !.scroll_offset = 0, !.autoscroll = FALSE])
      [] key = Key("End") \/ key = Char("G") ->
            Some(update_autoscroll([ls EXCEPT !.autoscroll = TRUE], page_height, page_width))
      [] key = Char("d") ->
            Some([ls EXCEPT !.scroll_offset = saturating_add(@, page_height \div 2),
                            !.autoscroll = FALSE])
      [] key = Char("u") ->
            Some([ls EXCEPT !.scroll_offset = saturating_sub(@, page_height \div 2),
                            !.autoscroll = FALSE])
      [] OTHER -> None

(* variant: the offset is not clamped after a manual adjustment *)
clamp_scroll_off(ls, page_height, page_width) == ls

(* the clamp that ends handle_key *)
clamp_scroll(ls, page_height, page_width) ==
    IF ~ls.autoscroll
    THEN [ls EXCEPT !.scroll_offset =
            clamp_offset(@, visual_line_count(ls, page_width), page_height)]
    ELSE ls

handle_key(ls, key, page_height, page_width) ==
    LET m == handle_key_match(ls, key, page_height, page_width)
    IN  IF IsSome(m) THEN clamp_scroll(Unwrap(m), page_height, page_width) ELSE ls

(* App::start_log_stream once the connection and the stream request succeeded *)
start_log_stream(task_id, initial_logs, t) ==
    update_autoscroll(
        [ task_id |-> task_id, logs |-> initial_logs, scroll_offset |-> 0,
          autoscroll |-> TRUE, stream_client |-> Some("stream") ],
        page_height_of(t), page_width_of(t))

----------------------------------------------------------------------------
(* src/src/main.rs: struct App and its key handler *)

Mode(tag) == [tag |-> tag, log |-> None]
LogMode(ls) == [tag |-> "Log", log |-> Some(ls)]

(* App::new *)
NewApp ==
    [ running          |-> FALSE,
      state            |-> None,
      table_state      |-> Some(0),
      selected_task_id |-> None,
      show_details     |-> FALSE,
      app_mode         |-> Mode("Normal"),
      filter_text      |-> <<>>,
      sort_field       |-> "Id",
      connection_error |-> None,
      error_modal      |-> None ]

quit(a) == [a EXCEPT !.running = FALSE]

(* variant: a failed refresh blanks the job set *)
refresh_state_clears(a, res) ==
    IF res.ok THEN [a EXCEPT !.state = Some(res.state)] ELSE [a EXCEPT !.state = None]

(* refresh_state: res is what get_state returned, a snapshot or an error *)
refresh_state(a, res) ==
    IF res.ok THEN [a EXCEPT !.state = Some(res.state)] ELSE a

IsDone(status) == status \in {"DoneSuccess", "DoneFailed", "DoneKilled"}
IsActive(status) == status \in {"Running", "Paused"}

(* the row under the selection resolved to an id: task_ids.get(i) *)
(* variant: the row is looked up in the unfiltered list *)
selected_target_unfiltered(a) ==
    IF IsSome(a.table_state)
    THEN Get(ViewCache[a.sort_field][<<>>][a.state], Unwrap(a.table_state))
    ELSE None

selected_target(a) ==
    IF IsSome(a.table_state)
    THEN Get(get_filtered_task_ids(a), Unwrap(a.table_state))
    ELSE None

(* variant: Enter clears the text as Esc does *)
on_key_filter_enter_clears(a, key) ==
    CASE key = Key("Esc") \/ key = Key("Enter") ->
            [a EXCEPT !.filter_text = <<>>, !.app_mode = Mode("Normal")]
      [] key = Key("Backspace") ->
            [a EXCEPT !.filter_text = SubSeq(@, 1, saturating_sub(Len(@), 1))]
      [] key.code = "Char" ->
            [a EXCEPT !.filter_text = Append(@, key.ch)]
      [] OTHER -> a

on_key_filter(a, key) ==
    CASE key = Key("Esc") ->
            [a EXCEPT !.filter_text = <<>>, !.app_mode = Mode("Normal")]
      [] key = Key("Enter") ->
            [a EXCEPT !.app_mode = Mode("Normal")]
      [] key = Key("Backspace") ->
            [a EXCEPT !.filter_text = SubSeq(@, 1, saturating_sub(Len(@), 1))]
      [] key.code = "Char" ->
            [a EXCEPT !.filter_text = Append(@, key.ch)]
      [] OTHER -> a

(* variant: Esc falls back to the default sort field *)
on_key_sort_esc_resets(a, key) ==
    CASE key = Key("Esc") -> [a EXCEPT !.sort_field = "Id", !.app_mode = Mode("Normal")]
      [] key = Char("i") -> [a EXCEPT !.sort_field = "Id", !.app_mode = Mode("Normal")]
      [] key = Char("s") -> [a EXCEPT !.sort_field = "Status", !.app_mode = Mode("Normal")]
      [] key = Char("c") -> [a EXCEPT !.sort_field = "Command", !.app_mode = Mode("Normal")]
      [] key = Char("p") -> [a EXCEPT !.sort_field = "Path", !.app_mode = Mode("Normal")]
      [] key = Char("q") -> quit(a)
      [] OTHER -> a

on_key_sort(a, key) ==
    CASE key = Key("Esc") -> [a EXCEPT !.app_mode = Mode("Normal")]
      [] key = Char("i") -> [a EXCEPT !.sort_field = "Id", !.app_mode = Mode("Normal")]
      [] key = Char("s") -> [a EXCEPT !.sort_field = "Status", !.app_mode = Mode("Normal")]
      [] key = Char("c") -> [a EXCEPT !.sort_field = "Command", !.app_mode = Mode("Normal")]
      [] key = Char("p") -> [a EXCEPT !.sort_field = "Path", !.app_mode = Mode("Normal")]
      [] key = Char("q") -> quit(a)
      [] OTHER -> a

(* variant: Esc is handed to the viewport like any other key *)
on_key_log_esc_ignored(a, key, t) ==
    LET page_height == page_height_of(t)
        page_width == page_width_of(t)
        ls == Unwrap(a.app_mode.log)
    IN  [a EXCEPT !.app_mode =
            LogMode(update_autoscroll(handle_key(ls, key, page_height, page_width),
                                      page_height, page_width))]

(* variant: q quits from the log view as it does from the table *)
on_key_log_quits(a, key, t) ==
    LET page_height == page_height_of(t)
        page_width == page_width_of(t)
        ls == Unwrap(a.app_mode.log)
    IN  IF key = Key("Esc")
        THEN [a EXCEPT !.app_mode = Mode("Normal")]
        ELSE IF key = Char("q") THEN quit(a)
        ELSE [a EXCEPT !.app_mode =
                LogMode(update_autoscroll(handle_key(ls, key, page_height, page_width),
                                          page_height, page_width))]

on_key_log(a, key, t) ==
    LET page_height == page_height_of(t)
        page_width == page_width_of(t)
        ls == Unwrap(a.app_mode.log)
    IN  IF key = Key("Esc")
        THEN [a EXCEPT !.app_mode = Mode("Normal")]
        ELSE [a EXCEPT !.app_mode =
                LogMode(update_autoscroll(handle_key(ls, key, page_height, page_width),
                                          page_height, page_width))]

(* variant: a failed request leaves no trace *)
on_key_action_silent(a, env, failure) ==
    IF ~IsSome(selected_target(a)) THEN a
    ELSE IF ~env.op THEN a
    ELSE refresh_state(a, env.refresh)

(* a start/restart, pause or kill key: the request, then the refresh *)
(* variant: a failed refresh after the request is reported in the footer *)
on_key_action_reports_refresh(a, env, failure) ==
    IF ~IsSome(selected_target(a)) THEN a
    ELSE IF ~env.op THEN [a EXCEPT !.error_modal = Some(failure)]
    ELSE IF ~env.refresh.ok
    THEN [a EXCEPT !.connection_error = Some(<<"Error: ", env.refresh.err>>)]
    ELSE refresh_state(a, env.refresh)

on_key_action(a, env, failure) ==
    IF ~IsSome(selected_target(a)) THEN a
    ELSE IF ~env.op THEN [a EXCEPT !.error_modal = Some(failure)]
    ELSE refresh_state(a, env.refresh)

(* variant: the row index is kept after the removal *)
on_key_remove_same_row(a, env) ==
    LET target == selected_target(a) IN
    IF ~IsSome(target) THEN a
    ELSE LET i == Unwrap(a.table_state)
             task_id == Unwrap(target)
             is_active == IsSome(a.state) /\ task_id \in DOMAIN Unwrap(a.state)
                            /\ IsActive(Unwrap(a.state)[task_id].status)
         IN  IF is_active THEN a
             ELSE IF ~env.op THEN [a EXCEPT !.error_modal = Some("Failed to remove task")]
             ELSE update_selected_task_id(
                    [refresh_state(a, env.refresh) EXCEPT !.table_state = Some(i)])

(* variant: the status of the job is not looked at *)
on_key_remove_any_status(a, env) ==
    LET target == selected_target(a) IN
    IF ~IsSome(target) THEN a
    ELSE LET i == Unwrap(a.table_state)
         IN  IF ~env.op THEN [a EXCEPT !.error_modal = Some("Failed to remove task")]
             ELSE LET a1 == refresh_state(a, env.refresh)
                      next_index == IF i > 0 THEN i - 1 ELSE 0
                  IN  update_selected_task_id([a1 EXCEPT !.table_state = Some(next_index)])

on_key_remove(a, env) ==
    LET target == selected_target(a) IN
    IF ~IsSome(target) THEN a
    ELSE LET i == Unwrap(a.table_state)
             task_id == Unwrap(target)
             is_active == IsSome(a.state) /\ task_id \in DOMAIN Unwrap(a.state)
                            /\ IsActive(Unwrap(a.state)[task_id].status)
         IN  IF is_active THEN a
             ELSE IF ~env.op THEN [a EXCEPT !.error_modal = Some("Failed to remove task")]
             ELSE LET a1 == refresh_state(a, env.refresh)
                      next_index == IF i > 0 THEN i - 1 ELSE 0
                  IN  update_selected_task_id([a1 EXCEPT !.table_state = Some(next_index)])

(* variant: Log mode is entered once the connection is there *)
on_key_open_log_unchecked(a, t, env) ==
    LET target == selected_target(a) IN
    IF ~IsSome(target) THEN a
    ELSE IF env.connect
         THEN [a EXCEPT !.app_mode =
                    LogMode(start_log_stream(Unwrap(target),
                                IF IsSome(env.stream) THEN Unwrap(env.stream) ELSE <<>>, t))]
         ELSE [a EXCEPT !.error_modal = Some("Failed to start log stream")]

on_key_open_log(a, t, env) ==
    LET target == selected_target(a) IN
    IF ~IsSome(target) THEN a
    ELSE IF env.connect /\ IsSome(env.stream)
         THEN [a EXCEPT !.app_mode =
                    LogMode(start_log_stream(Unwrap(target), Unwrap(env.stream), t))]
         ELSE [a EXCEPT !.error_modal = Some("Failed to start log stream")]

(* variant: Down stops at the last row *)
on_key_down_clamped(a) ==
    LET task_ids == get_filtered_task_ids(a)
        i == IF IsSome(a.table_state) /\ task_ids /= <<>>
             THEN Min(Unwrap(a.table_state) + 1, saturating_sub(Len(task_ids), 1))
             ELSE 0
    IN  update_selected_task_id([a EXCEPT !.table_state = Some(i)])

on_key_down(a) ==
    LET task_ids == get_filtered_task_ids(a)
        i == IF IsSome(a.table_state) /\ task_ids /= <<>>
             THEN (IF Unwrap(a.table_state) >= saturating_sub(Len(task_ids), 1)
                   THEN 0
                   ELSE Unwrap(a.table_state) + 1)
             ELSE 0
    IN  update_selected_task_id([a EXCEPT !.table_state = Some(i)])

on_key_up(a) ==
    LET task_ids == get_filtered_task_ids(a)
        i == IF IsSome(a.table_state) /\ task_ids /= <<>>
             THEN (IF Unwrap(a.table_state) = 0
                   THEN saturating_sub(Len(task_ids), 1)
                   ELSE Unwrap(a.table_state) - 1)
             ELSE 0
    IN  update_selected_task_id([a EXCEPT !.table_state = Some(i)])

on_key_home(a) ==
    IF get_filtered_task_ids(a) /= <<>>
    THEN update_selected_task_id([a EXCEPT !.table_state = Some(0)])
    ELSE a

on_key_end(a) ==
    LET task_ids == get_filtered_task_ids(a)
    IN  IF task_ids /= <<>>
        THEN update_selected_task_id(
                [a EXCEPT !.table_state = Some(saturating_sub(Len(task_ids), 1))])
        ELSE a

(* variant: the details overlay does not take the keys *)
on_key_normal_through_details(a, key, t, env) ==
    IF IsSome(a.error_modal)
    THEN CASE key = Key("Esc") -> [a EXCEPT !.error_modal = None]
           [] key = Char("q") -> quit(a)
           [] OTHER -> a
    ELSE CASE key = Char("q") -> quit(a)
           [] key = Key("Esc") ->
                IF a.show_details THEN [a EXCEPT !.show_details = FALSE]
                ELSE [a EXCEPT !.filter_text = <<>>]
           [] key = Key("Enter") -> on_key_open_log(a, t, env)
           [] key = Char("d") ->
                IF IsSome(a.table_state) THEN [a EXCEPT !.show_details = TRUE] ELSE a
           [] key = Char("j") \/ key = Key("Down") -> on_key_down(a)
           [] key = Char("f") -> [a EXCEPT !.app_mode = Mode("Filter")]
           [] key = Char("s") -> [a EXCEPT !.app_mode = Mode("Sort")]
           [] key = Char("x") -> on_key_action(a, env, "Failed to kill task")
           [] OTHER -> a

on_key_normal(a, key, t, env) ==
    IF IsSome(a.error_modal)
    THEN CASE key = Key("Esc") -> [a EXCEPT !.error_modal = None]
           [] key = Char("q") -> quit(a)
           [] OTHER -> a
    ELSE IF a.show_details
    THEN CASE key = Key("Esc") -> [a EXCEPT !.show_details = FALSE]
           [] key = Char("q") -> quit(a)
           [] OTHER -> a
    ELSE CASE key = Char("q") -> quit(a)
           [] key = Key("Esc") -> [a EXCEPT !.filter_text = <<>>]
           [] key = Key("Enter") -> on_key_open_log(a, t, env)
           [] key = Char("d") ->
                IF IsSome(a.table_state) THEN [a EXCEPT !.show_details = TRUE] ELSE a
           [] key = Char("j") \/ key = Key("Down") -> on_key_down(a)
           [] key = Char("k") \/ key = Key("Up") -> on_key_up(a)
           [] key = Key("Home") -> on_key_home(a)
           [] key = Key("End") -> on_key_end(a)
           [] key = Char("f") -> [a EXCEPT !.app_mode = Mode("Filter")]
           [] key = Char("s") -> [a EXCEPT !.app_mode = Mode("Sort")]
           [] key = Char("r") -> on_key_action(a, env, "Failed to start task")
           [] key = Char("p") -> on_key_action(a, env, "Failed to pause task")
           [] key = Char("x") -> on_key_action(a, env, "Failed to kill task")
           [] key = Key("Backspace") -> on_key_remove(a, env)
           [] OTHER -> a

on_key_event(a, key, t, env) ==
    CASE a.app_mode.tag = "Filter" -> on_key_filter(a, key)
      [] a.app_mode.tag = "Sort" -> on_key_sort(a, key)
      [] a.app_mode.tag = "Log" -> on_key_log(a, key, t)
      [] a.app_mode.tag = "Normal" -> on_key_normal(a, key, t, env)

----------------------------------------------------------------------------
(* src/src/main.rs: the other two arms of the select! in App::run *)

(* variant: the log-chunk arm resolves whenever the mode is Log *)
chunk_ready_in_log(a) == a.app_mode.tag = "Log"

(* the log-chunk arm resolves only in Log mode with a stream *)
chunk_ready(a) ==
    a.app_mode.tag = "Log" /\ IsSome(Unwrap(a.app_mode.log).stream_client)

(* variant: a chunk grows the buffer and the offset stays where it was *)
on_log_chunk_keeps_offset(a, res, t) ==
    LET ls == Unwrap(a.app_mode.log) IN
    IF res.ok /\ IsSome(res.chunk)
    THEN [a EXCEPT !.app_mode = LogMode([ls EXCEPT !.logs = @ \o Unwrap(res.chunk)])]
    ELSE [a EXCEPT !.app_mode = LogMode([ls EXCEPT !.stream_client = None])]

(* variant: an error of the stream is reported in the error modal *)
on_log_chunk_error_shown(a, res, t) ==
    LET ls == Unwrap(a.app_mode.log) IN
    IF res.ok /\ IsSome(res.chunk)
    THEN LET chunk == Unwrap(res.chunk) IN
         IF chunk /= <<>>
         THEN LET grown == [ls EXCEPT !.logs = @ \o chunk]
              IN  [a EXCEPT !.app_mode =
                      LogMode(IF grown.autoscroll
                              THEN update_autoscroll(grown, page_height_of(t), page_width_of(t))
                              ELSE grown)]
         ELSE a
    ELSE [a EXCEPT !.app_mode = LogMode([ls EXCEPT !.stream_client = None]),
                   !.error_modal = IF res.ok THEN @ ELSE Some("Stream failed")]

(* variant: an empty chunk ends the stream as Close does *)
on_log_chunk_empty_closes(a, res, t) ==
    LET ls == Unwrap(a.app_mode.log) IN
    IF res.ok /\ IsSome(res.chunk) /\ Unwrap(res.chunk) /= <<>>
    THEN LET grown == [ls EXCEPT !.logs = @ \o Unwrap(res.chunk)]
         IN  [a EXCEPT !.app_mode =
                 LogMode(IF grown.autoscroll
                         THEN update_autoscroll(grown, page_height_of(t), page_width_of(t))
                         ELSE grown)]
    ELSE [a EXCEPT !.app_mode = LogMode([ls EXCEPT !.stream_client = None])]

(* res is what receive_stream_chunk returned:                             *)
(* [ok |-> TRUE, chunk |-> Some(text) | None] or [ok |-> FALSE, ...]      *)
(* variant: the buffer is emptied when the stream ends *)
on_log_chunk_close_clears(a, res, t) ==
    LET ls == Unwrap(a.app_mode.log) IN
    IF res.ok /\ IsSome(res.chunk)
    THEN LET chunk == Unwrap(res.chunk) IN
         IF chunk /= <<>>
         THEN LET grown == [ls EXCEPT !.logs = @ \o chunk]
              IN  [a EXCEPT !.app_mode =
                      LogMode(IF grown.autoscroll
                              THEN update_autoscroll(grown, page_height_of(t), page_width_of(t))
                              ELSE grown)]
         ELSE a
    ELSE [a EXCEPT !.app_mode = LogMode([ls EXCEPT !.stream_client = None, !.logs = <<>>])]

on_log_chunk(a, res, t) ==
    LET ls == Unwrap(a.app_mode.log) IN
    IF res.ok /\ IsSome(res.chunk)
    THEN LET chunk == Unwrap(res.chunk) IN
         IF chunk /= <<>>
         THEN LET grown == [ls EXCEPT !.logs = @ \o chunk]
              IN  [a EXCEPT !.app_mode =
                      LogMode(IF grown.autoscroll
                              THEN update_autoscroll(grown, page_height_of(t), page_width_of(t))
                              ELSE grown)]
         ELSE a
    ELSE [a EXCEPT !.app_mode = LogMode([ls EXCEPT !.stream_client = None])]

(* error texts of the connection as e.to_string() gives them *)
ErrBrokenPipe == <<"B", "r", "o", "k", "e", "n", " ", "p", "i", "p", "e">>
ErrConnectionReset ==
    <<"C", "o", "n", "n", "e", "c", "t", "i", "o", "n", " ", "r", "e", "s", "e", "t">>
ErrConnectionRefused ==
    <<"C", "o", "n", "n", "e", "c", "t", "i", "o", "n", " ",
      "r", "e", "f", "u", "s", "e", "d">>
ErrUnexpected == <<"U", "n", "e", "x", "p", "e", "c", "t", "e", "d">>

(* variant: every failure of the refresh is taken for a lost connection *)
is_transport_error_always(e) == TRUE

is_transport_error(e) ==
    LET err_str == to_lowercase(e)
    IN  \/ contains(err_str, <<"b", "r", "o", "k", "e", "n", " ", "p", "i", "p", "e">>)
        \/ contains(err_str, <<"c", "o", "n", "n", "e", "c", "t", "i", "o", "n">>)

(* variant: the application gives up when the reconnect fails *)
on_tick_gives_up(a, env) ==
    IF env.first.ok
    THEN [refresh_state(a, env.first) EXCEPT !.connection_error = None]
    ELSE IF is_transport_error(env.first.err)
         THEN IF env.reconnect.ok
              THEN IF env.retry.ok
                   THEN [refresh_state(a, env.retry) EXCEPT !.connection_error = None]
                   ELSE [a EXCEPT !.connection_error =
                            Some(<<"Reconnection failed: ", env.retry.err>>)]
              ELSE quit([a EXCEPT !.connection_error =
                            Some(<<"Reconnection failed: ", env.reconnect.err>>)])
         ELSE [a EXCEPT !.connection_error = Some(<<"Error: ", env.first.err>>)]

(* variant: after a reconnect the error is cleared whatever the second    *)
(* refresh returned                                                        *)
on_tick_retry_unchecked(a, env) ==
    IF env.first.ok
    THEN [refresh_state(a, env.first) EXCEPT !.connection_error = None]
    ELSE IF is_transport_error(env.first.err)
         THEN IF env.reconnect.ok
              THEN [refresh_state(a, env.retry) EXCEPT !.connection_error = None]
              ELSE [a EXCEPT !.connection_error =
                        Some(<<"Reconnection failed: ", env.reconnect.err>>)]
         ELSE [a EXCEPT !.connection_error = Some(<<"Error: ", env.first.err>>)]

(* variant: a reconnect also releases the connection of the log session *)
on_tick_closes_stream(a, env) ==
    IF env.first.ok
    THEN [refresh_state(a, env.first) EXCEPT !.connection_error = None]
    ELSE IF is_transport_error(env.first.err)
         THEN IF env.reconnect.ok
              THEN IF env.retry.ok
                   THEN [refresh_state(a, env.retry) EXCEPT
                            !.connection_error = None,
                            !.app_mode = IF a.app_mode.tag = "Log"
                                         THEN LogMode([Unwrap(a.app_mode.log) EXCEPT
                                                          !.stream_client = None])
                                         ELSE a.app_mode]
                   ELSE [a EXCEPT !.connection_error =
                            Some(<<"Reconnection failed: ", env.retry.err>>)]
              ELSE [a EXCEPT !.connection_error =
                        Some(<<"Reconnection failed: ", env.reconnect.err>>)]
         ELSE [a EXCEPT !.connection_error = Some(<<"Error: ", env.first.err>>)]

(* variant: a refresh that succeeds leaves the recorded error in place *)
on_tick_keeps_error(a, env) ==
    IF env.first.ok
    THEN refresh_state(a, env.first)
    ELSE IF is_transport_error(env.first.err)
         THEN IF env.reconnect.ok
              THEN IF env.retry.ok
                   THEN [refresh_state(a, env.retry) EXCEPT !.connection_error = None]
                   ELSE [a EXCEPT !.connection_error =
                            Some(<<"Reconnection failed: ", env.retry.err>>)]
              ELSE [a EXCEPT !.connection_error =
                        Some(<<"Reconnection failed: ", env.reconnect.err>>)]
         ELSE [a EXCEPT !.connection_error = Some(<<"Error: ", env.first.err>>)]

(* the tick arm.  env.first and env.retry are results of get_state,       *)
(* env.reconnect the result of reconnect                                  *)
on_tick(a, env) ==
    IF env.first.ok
    THEN [refresh_state(a, env.first) EXCEPT !.connection_error = None]
    ELSE IF is_transport_error(env.first.err)
         THEN IF env.reconnect.ok
              THEN IF env.retry.ok
                   THEN [refresh_state(a, env.retry) EXCEPT !.connection_error = None]
                   ELSE [a EXCEPT !.connection_error =
                            Some(<<"Reconnection failed: ", env.retry.err>>)]
              ELSE [a EXCEPT !.connection_error =
                        Some(<<"Reconnection failed: ", env.reconnect.err>>)]
         ELSE [a EXCEPT !.connection_error = Some(<<"Error: ", env.first.err>>)]

(* The tick arm in two parts: up to the point where it awaits reconnect,   *)
(* and from there on.  The loop draws no frame between the two.            *)
awaits_reconnect(env) == ~env.first.ok /\ is_transport_error(env.first.err)

Reconnecting == <<"Reconnecting to Pueue daemon...">>

on_tick_refresh(a, env) ==
    IF awaits_reconnect(env)
    THEN [a EXCEPT !.connection_error = Some(Reconnecting)]
    ELSE on_tick(a, env)

on_tick_reconnect(a, env) ==
    IF env.reconnect.ok
    THEN IF env.retry.ok
         THEN [refresh_state(a, env.retry) EXCEPT !.connection_error = None]
         ELSE [a EXCEPT !.connection_error =
                  Some(<<"Reconnection failed: ", env.retry.err>>)]
    ELSE [a EXCEPT !.connection_error =
              Some(<<"Reconnection failed: ", env.reconnect.err>>)]

(* results of the calls to the daemon *)
Ok(snapshot) == [ok |-> TRUE, state |-> snapshot, err |-> <<>>]
Err(e) == [ok |-> FALSE, state |-> <<>>, err |-> e]

----------------------------------------------------------------------------
(* App::run.  The events and the answers of the daemon are the inputs.     *)

NoKey == Key("")

(* what the daemon answers to the requests of one key press: op to the    *)
(* start/restart/pause/kill/remove request, refresh to the get_state that *)
(* follows it, connect and stream to the two steps of opening a log       *)
Env(op, refresh, connect, stream) ==
    [op |-> op, op_err |-> ErrUnexpected, refresh |-> refresh,
     connect |-> connect, stream |-> stream]

(* the request fails with error e *)
EnvFailing(e) == [Env(FALSE, Err(<<>>), TRUE, None) EXCEPT !.op_err = e]

NoEnv == Env(TRUE, Err(<<>>), TRUE, None)

(* the keys of Normal mode that resolve the selected row to a job id *)
RowKeys == {Key("Enter"), Char("r"), Char("p"), Char("x"), Key("Backspace")}

ResolvesRow(a, key) ==
    /\ a.app_mode.tag = "Normal"
    /\ ~IsSome(a.error_modal)
    /\ ~a.show_details
    /\ key \in RowKeys

(* the calls of one iteration to the daemon, each with what it returned:   *)
(* the methods of PueueClientOps on the connection of the application and, *)
(* for a log session, PueueClient::new and start_log_stream on a new one   *)
Call(op, arg, res) == [op |-> op, arg |-> arg, res |-> res]

(* the result of a request whose response is not looked at *)
OpResult(env) == IF env.op THEN Ok(<<>>) ELSE Err(env.op_err)

(* variant: the restart carries the command as displayed *)
TaskToRestart_displayed(task_id, task) ==
    [ task_id |-> task_id, original_command |-> task.command,
      path |-> task.path, label |-> task.label, priority |-> task.priority ]

TaskToRestart(task_id, task) ==
    [ task_id |-> task_id, original_command |-> task.original_command,
      path |-> task.path, label |-> task.label, priority |-> task.priority ]

(* the request of the 'r' key: restart_tasks for a Done job, else start_tasks *)
start_or_restart_call(a, task_id, env) ==
    IF IsSome(a.state) /\ task_id \in DOMAIN Unwrap(a.state)
         /\ IsDone(Unwrap(a.state)[task_id].status)
    THEN Call("restart_tasks", <<TaskToRestart(task_id, Unwrap(a.state)[task_id])>>,
              OpResult(env))
    ELSE Call("start_tasks", <<task_id>>, OpResult(env))

(* variant: a transport error is answered as in the tick arm, by a         *)
(* reconnect and a second attempt                                         *)
with_refresh_retrying(call, env) ==
    IF call.res.ok THEN <<call, Call("get_state", <<>>, env.refresh)>>
    ELSE IF is_transport_error(call.res.err)
    THEN <<call, Call("reconnect", <<>>, Ok(<<>>)), call>>
    ELSE <<call>>

(* a request and, when it did not fail, the refresh that follows it *)
with_refresh(call, env) ==
    IF call.res.ok THEN <<call, Call("get_state", <<>>, env.refresh)>> ELSE <<call>>

(* PueueClient::new and, on the connection it gave, start_log_stream *)
open_log_calls(task_id, env) ==
    IF env.connect
    THEN <<Call("new", <<>>, Ok(<<>>)),
           Call("start_log_stream", <<task_id>>,
                IF IsSome(env.stream) THEN Ok(<<>>) ELSE Err(ErrUnexpected))>>
    ELSE <<Call("new", <<>>, Err(ErrUnexpected))>>

(* the calls on_key_event makes for key *)
key_calls(a, key, env) ==
    IF ~ResolvesRow(a, key) \/ ~IsSome(selected_target(a)) THEN <<>>
    ELSE LET task_id == Unwrap(selected_target(a)) IN
         CASE key = Char("r") -> with_refresh(start_or_restart_call(a, task_id, env), env)
           [] key = Char("p") ->
                with_refresh(Call("pause_tasks", <<task_id>>, OpResult(env)), env)
           [] key = Char("x") ->
                with_refresh(Call("kill_tasks", <<task_id>>, OpResult(env)), env)
           [] key = Key("Backspace") ->
                IF IsSome(a.state) /\ task_id \in DOMAIN Unwrap(a.state)
                     /\ IsActive(Unwrap(a.state)[task_id].status)
                THEN <<>>
                ELSE with_refresh(Call("remove_tasks", <<task_id>>, OpResult(env)), env)
           [] key = Key("Enter") -> open_log_calls(task_id, env)

(* the calls of the tick arm *)
tick_calls(env) ==
    <<Call("get_state", <<>>, env.first)>> \o
    (IF env.first.ok \/ ~is_transport_error(env.first.err) THEN <<>>
     ELSE <<Call("reconnect", <<>>, env.reconnect)>> \o
          (IF env.reconnect.ok THEN <<Call("get_state", <<>>, env.retry)>> ELSE <<>>))

(* the log session of the mode owns a connection *)
holds_stream(a) ==
    a.app_mode.tag = "Log" /\ IsSome(Unwrap(a.app_mode.log).stream_client)

(* on_key_event assigns app_mode for this key: the value held is dropped *)
replaces_mode(a, key, env) ==
    CASE a.app_mode.tag = "Filter" -> key \in {Key("Esc"), Key("Enter")}
      [] a.app_mode.tag = "Sort" ->
            key \in {Key("Esc"), Char("i"), Char("s"), Char("c"), Char("p")}
      [] a.app_mode.tag = "Log" -> key = Key("Esc")
      [] a.app_mode.tag = "Normal" ->
            /\ ~IsSome(a.error_modal) /\ ~a.show_details
            /\ \/ key \in {Char("f"), Char("s")}
               \/ /\ key = Key("Enter") /\ IsSome(selected_target(a))
                  /\ env.connect /\ IsSome(env.stream)

(* live log connections after a key: PueueClient::new adds one, the return *)
(* of a failed start_log_stream drops it, replacing a Log mode drops the   *)
(* one its LogState owns                                                   *)
key_streams(n, a, key, env) ==
    LET opens == ResolvesRow(a, key) /\ key = Key("Enter") /\ IsSome(selected_target(a))
        connected == IF opens /\ env.connect THEN 1 ELSE 0
        failed == IF opens /\ env.connect /\ ~IsSome(env.stream) THEN 1 ELSE 0
        replaced == IF replaces_mode(a, key, env) /\ holds_stream(a) THEN 1 ELSE 0
    IN  (n + connected) - (failed + replaced)

(* live log connections after the log-chunk arm: stream_client = None      *)
(* drops the connection                                                    *)
chunk_streams(n, a, res) ==
    IF res.ok /\ IsSome(res.chunk) THEN n
    ELSE IF holds_stream(a) THEN n - 1 ELSE n

Last(ev, key, mode, row, rows, target, op) ==
    [ev |-> ev, key |-> key, mode |-> mode, row |-> row, rows |-> rows,
     target |-> target, op |-> op]

LastOf(ev, op) == Last(ev, NoKey, app.app_mode.tag, None, 0, None, op)

(* The tick interval of App::run, in time units of which TickPeriod make   *)
(* one tick_rate.  due_in is the time until the next deadline, late the    *)
(* time by which a deadline that has passed is overdue; since is the time  *)
(* since the interval last fired and lag the lateness of that firing       *)
(* (both capped, the first at TickPeriod).                                 *)
NewTimer == [due_in |-> 0, late |-> 0, since |-> TickPeriod, lag |-> 0]

(* time d passes *)
elapse(t, d) ==
    [due_in |-> IF d <= t.due_in THEN t.due_in - d ELSE 0,
     late |-> IF d <= t.due_in THEN t.late ELSE Min(t.late + (d - t.due_in), MaxLate),
     since |-> Min(t.since + d, TickPeriod),
     lag |-> t.lag]

(* Interval::tick completing under MissedTickBehavior::Burst: the next    *)
(* deadline is one period after the deadline that fired                   *)
interval_tick_burst(t) ==
    [due_in |-> IF t.late >= TickPeriod THEN 0 ELSE TickPeriod - t.late,
     late |-> IF t.late >= TickPeriod THEN t.late - TickPeriod ELSE 0,
     since |-> 0,
     lag |-> t.late]

(* Interval::tick completing under MissedTickBehavior::Delay: the next    *)
(* deadline is one period after the moment of the firing                  *)
interval_tick(t) ==
    [due_in |-> TickPeriod, late |-> 0, since |-> 0, lag |-> t.late]

(* what App::draw hands to ui::draw, after the selection is synchronised *)
UiState(a) ==
    [table_state |-> a.table_state,
     log_view |-> a.app_mode.tag = "Log",
     connection_error |-> a.connection_error,
     error_modal |-> a.error_modal]

(* the loop condition and the draw that opens the next iteration *)
Redraw(a) ==
    /\ app' = IF a.running THEN draw(a) ELSE a
    /\ pc' = IF a.running THEN "loop" ELSE "exited"
    /\ frame' = IF a.running THEN Some(UiState(app')) ELSE frame

(* main() with App::new and run() entered although the connection failed *)
main_enters_ui(res) ==
    [pc |-> "new", app |-> NewApp,
     printed |-> IF res.ok THEN <<>>
                 ELSE <<"Failed to connect to Pueue daemon: ", res.err>>]

(* main() up to the call of App::run: PueueClient::new answers res *)
main(res) ==
    IF res.ok
    THEN [pc |-> "new", app |-> NewApp, printed |-> <<>>]
    ELSE [pc |-> "failed", app |-> None,
          printed |-> <<"Failed to connect to Pueue daemon: ", res.err>>]

InitWith(sizes) ==
    /\ pc = "new"
    /\ app = NewApp
    /\ term \in sizes
    /\ last = Last("new", NoKey, "Normal", None, 0, None, "-")
    /\ calls = <<>>
    /\ streams = 0
    /\ frame = None
    /\ timer = NewTimer

(* run() up to the first select!: running is set, the first frame drawn *)
Start ==
    /\ pc = "new"
    /\ Redraw([app EXCEPT !.running = TRUE])
    /\ last' = LastOf("start", "-")
    /\ calls' = <<>>
    /\ UNCHANGED <<term, streams, timer>>

(* the terminal-event arm with a key press *)
KeyArm(key, env) ==
    /\ pc = "loop"
    /\ Redraw(on_key_event(app, key, term, env))
    /\ last' = IF ResolvesRow(app, key)
               THEN Last("key", key, app.app_mode.tag, app.table_state,
                         Len(get_filtered_task_ids(app)), selected_target(app),
                         IF env.op THEN "Ok" ELSE "Err")
               ELSE Last("key", key, app.app_mode.tag, None, 0, None, "-")
    /\ calls' = key_calls(app, key, env)
    /\ streams' = key_streams(streams, app, key, env)
    /\ UNCHANGED term

KeyEvent(key, env) == KeyArm(key, env) /\ UNCHANGED timer

(* the terminal-event arm with a resize: the event is dropped *)
ResizeEvent(size) ==
    /\ pc = "loop"
    /\ term' = size
    /\ Redraw(app)
    /\ last' = LastOf("resize", "-")
    /\ calls' = <<>>
    /\ UNCHANGED <<streams, timer>>

(* the tick arm *)
TickArm(env) ==
    /\ pc = "loop"
    /\ Redraw(on_tick(app, env))
    /\ last' = LastOf("tick", IF env.first.ok THEN "Ok" ELSE "Err")
    /\ calls' = tick_calls(env)
    /\ UNCHANGED <<term, streams>>

TickEvent(env) == TickArm(env) /\ UNCHANGED timer

ChunkKind(res) ==
    IF ~res.ok THEN "error"
    ELSE IF ~IsSome(res.chunk) THEN "closed"
    ELSE IF Unwrap(res.chunk) = <<>> THEN "empty" ELSE "data"

(* the log-chunk arm *)
ChunkEvent(res) ==
    /\ pc = "loop"
    /\ chunk_ready(app)
    /\ Redraw(on_log_chunk(app, res, term))
    /\ last' = LastOf("chunk", ChunkKind(res))
    /\ calls' = <<>>
    /\ streams' = chunk_streams(streams, app, res)
    /\ UNCHANGED <<term, timer>>

TickOk(snapshot) == [first |-> Ok(snapshot), reconnect |-> Ok(<<>>), retry |-> Ok(<<>>)]

----------------------------------------------------------------------------
(* Spec: the job table.  The daemon answers every request; jobs come and   *)
(* go and change status between refreshes; the user navigates, filters,    *)
(* sorts, removes jobs and opens and closes the log of a job.              *)

TableStatuses == {"Queued", "Running"}
TableSnapshots == SnapshotsOver(TaskIds, TableStatuses)

TableNormalKeys ==
    {Char("j"), Char("k"), Key("Home"), Key("End"), Char("f"), Char("s"), Char("d"),
     Key("Esc"), Key("Enter"), Key("Backspace"), Char("q"), Char("r"), Char("x")}
TableFilterKeys ==
    {Char(c) : c \in FilterChars} \cup {Key("Esc"), Key("Enter"), Key("Backspace")}
TableSortKeys ==
    {Char("i"), Char("s"), Char("c"), Char("p"), Char("x"), Key("Esc"), Char("q")}

(* the job set the application holds, empty before the first refresh *)
Tasks(a) == IF IsSome(a.state) THEN Unwrap(a.state) ELSE <<>>

Without(s, id) == [i \in DOMAIN s \ {id} |-> s[i]]

Changed(s1, s2) ==
    {id \in TaskIds :
        \/ (id \in DOMAIN s1) /= (id \in DOMAIN s2)
        \/ id \in DOMAIN s1 /\ id \in DOMAIN s2 /\ s1[id] /= s2[id]}

(* what the daemon may hold at the next refresh *)
TableRefreshes(cur) ==
    {s \in TableSnapshots : Cardinality(Changed(cur, s)) <= MaxChanges}

(* the same after a Remove request for target, carried out or not *)
TableRemovals(cur, target) ==
    TableRefreshes(cur) \cup {Without(s, target) : s \in TableRefreshes(cur)}

TableEnvs(key) ==
    IF key = Key("Backspace") /\ IsSome(selected_target(app))
    THEN {Env(TRUE, r, TRUE, None) :
            r \in {Ok(s) : s \in TableRemovals(Tasks(app), Unwrap(selected_target(app)))}
                   \cup {Err(ErrUnexpected)}}
    ELSE IF key = Key("Enter") THEN {Env(TRUE, Err(<<>>), TRUE, Some(<<>>))}
    ELSE {NoEnv}

Init == InitWith({TableTerm})

Tick == \E s \in TableRefreshes(Tasks(app)) : TickEvent(TickOk(s))

KeyNormal ==
    /\ app.app_mode.tag = "Normal"
    /\ \E key \in TableNormalKeys : \E env \in TableEnvs(key) : KeyEvent(key, env)

KeyFilter ==
    /\ app.app_mode.tag = "Filter"
    /\ \E key \in TableFilterKeys :
         /\ key.code = "Char" => Len(app.filter_text) < MaxFilterLen
         /\ KeyEvent(key, NoEnv)

KeySort ==
    /\ app.app_mode.tag = "Sort"
    /\ \E key \in TableSortKeys : KeyEvent(key, NoEnv)

KeyLogClose ==
    /\ app.app_mode.tag = "Log"
    /\ KeyEvent(Key("Esc"), NoEnv)

Next == Start \/ Tick \/ KeyNormal \/ KeyFilter \/ KeySort \/ KeyLogClose

Spec == Init /\ [][Next]_vars

----------------------------------------------------------------------------
(* SpecLog: the log viewport.  One job is queued; the user opens its log,  *)
(* scrolls, closes it; the daemon streams chunks, ends the stream or fails;*)
(* the terminal is resized.                                                *)

LogSnapshot == [id \in {0} |-> Task(0, "Queued")]

LogKeys ==
    {Char("j"), Key("Down"), Char("k"), Key("Up"), Key("PageUp"), Char("b"),
     Char(" "), Key("PageDown"),
     Char("d"), Char("u"), Char("g"), Key("Home"), Char("G"), Key("End"),
     Char("x"), Key("Esc")}

(* what receive_stream_chunk may return while the buffer holds logs *)
LogChunks(logs) ==
    {[ok |-> TRUE, chunk |-> Some(c)] : c \in SeqsUpTo(LogChars, MaxLogLen - Len(logs))}
        \cup {[ok |-> TRUE, chunk |-> None], [ok |-> FALSE, chunk |-> None]}

InitLog == InitWith(LogSizes)

LogTick == TickEvent(TickOk(LogSnapshot))

LogOpen ==
    /\ app.app_mode.tag = "Normal"
    /\ \E initial \in LogTexts :
         KeyEvent(Key("Enter"), Env(TRUE, Err(<<>>), TRUE, Some(initial)))

LogKey ==
    /\ app.app_mode.tag = "Log"
    /\ \E key \in LogKeys : KeyEvent(key, NoEnv)

LogChunk ==
    /\ chunk_ready(app)
    /\ \E res \in LogChunks(Unwrap(app.app_mode.log).logs) : ChunkEvent(res)

LogResize == \E size \in LogSizes \ {term} : ResizeEvent(size)

NextLog == Start \/ LogTick \/ LogOpen \/ LogKey \/ LogChunk \/ LogResize

SpecLog == InitLog /\ [][NextLog]_vars

----------------------------------------------------------------------------
(* SpecDaemon: the daemon may fail.  Two jobs, each absent, waiting,       *)
(* active or done; the user starts, pauses, kills and removes jobs and     *)
(* opens and closes their logs; every request, refresh, reconnect,         *)
(* connection and stream may fail.                                         *)

DaemonIds == {0, 1}
(* one status of each class the handlers tell apart: neither active nor    *)
(* done, active, done                                                      *)
DaemonStatuses == {"Queued", "Running", "DoneSuccess"}
DaemonSnapshots == SnapshotsOver(DaemonIds, DaemonStatuses)
DaemonErrors == {ErrBrokenPipe, ErrConnectionReset, ErrUnexpected}

DaemonNormalKeys ==
    {Char("r"), Char("p"), Char("x"), Key("Backspace"), Key("Enter"),
     Char("j"), Key("Esc"), Char("q")}
DaemonLogKeys == {Key("Esc"), Char("k")}
(* the log buffers: empty or one character *)
DaemonLogTexts == SeqsUpTo({"A"}, 1)

(* the snapshots get_state may return *)
DaemonRefreshes(cur) ==
    {Ok(s) : s \in {t \in DaemonSnapshots : Cardinality(Changed(cur, t)) <= MaxChanges}}

(* the errors a request may fail with: both classes for the pause request *)
DaemonOpErrors(key) ==
    IF key = Char("p") THEN {ErrUnexpected, ErrBrokenPipe} ELSE {ErrUnexpected}

(* a key that issues no request has nothing answered; a request that      *)
(* fails is followed by no refresh, a connection that fails by no stream   *)
DaemonEnvs(key) ==
    IF key_calls(app, key, NoEnv) = <<>> THEN {NoEnv}
    ELSE IF key = Key("Enter")
    THEN {Env(TRUE, Err(<<>>), TRUE, st) : st \in {None} \cup {Some(t) : t \in DaemonLogTexts}}
         \cup {Env(TRUE, Err(<<>>), FALSE, None)}
    ELSE {Env(TRUE, r, TRUE, None) :
            r \in DaemonRefreshes(Tasks(app)) \cup {Err(ErrBrokenPipe)}}
         \cup {EnvFailing(e) : e \in DaemonOpErrors(key)}

(* what the daemon answers during one tick: the first refresh, and after   *)
(* a failure of the transport class the reconnect and the second refresh   *)
DaemonTicks(cur) ==
    {TickOk(r.state) : r \in DaemonRefreshes(cur)}
    \cup {[first |-> Err(e), reconnect |-> Ok(<<>>), retry |-> r] :
            e \in {d \in DaemonErrors : is_transport_error(d)},
            r \in DaemonRefreshes(cur) \cup {Err(ErrBrokenPipe)}}
    \cup {[first |-> Err(e), reconnect |-> Err(ErrConnectionRefused), retry |-> Err(<<>>)] :
            e \in DaemonErrors}

(* what receive_stream_chunk may return while the buffer holds logs *)
DaemonChunks(logs) ==
    {[ok |-> TRUE, chunk |-> Some(c)] : c \in {t \in DaemonLogTexts : logs \o t \in DaemonLogTexts}}
        \cup {[ok |-> TRUE, chunk |-> None], [ok |-> FALSE, chunk |-> None]}

InitDaemon == InitWith({TableTerm})

DaemonTick == \E env \in DaemonTicks(Tasks(app)) : TickEvent(env)

DaemonKey ==
    /\ app.app_mode.tag = "Normal"
    /\ \E key \in DaemonNormalKeys : \E env \in DaemonEnvs(key) : KeyEvent(key, env)

DaemonLogKey ==
    /\ app.app_mode.tag = "Log"
    /\ \E key \in DaemonLogKeys : KeyEvent(key, NoEnv)

DaemonChunk ==
    /\ chunk_ready(app)
    /\ \E res \in DaemonChunks(Unwrap(app.app_mode.log).logs) : ChunkEvent(res)

NextDaemon == Start \/ DaemonTick \/ DaemonKey \/ DaemonLogKey \/ DaemonChunk

SpecDaemon == InitDaemon /\ [][NextDaemon]_vars

----------------------------------------------------------------------------
(* SpecMain: the program from main().  The first connection succeeds or    *)
(* fails; in the loop the tick arm is taken in its two parts, with the     *)
(* state between them being the one in which reconnect is awaited.         *)

InitMain ==
    /\ pc = "main"
    /\ app = None
    /\ term = TableTerm
    /\ last = Last("new", NoKey, "Normal", None, 0, None, "-")
    /\ calls = <<>>
    /\ streams = 0
    /\ frame = None
    /\ timer = NewTimer

MainConnect ==
    /\ pc = "main"
    /\ \E res \in {Ok(<<>>), Err(ErrConnectionRefused)} :
         /\ pc' = main(res).pc
         /\ app' = main(res).app
         /\ last' = Last("connect", NoKey, "Normal", None, 0, None, main(res).printed)
         /\ calls' = <<Call("connect", <<>>, res)>>
    /\ UNCHANGED <<term, streams, frame, timer>>

(* a tick whose arm runs to its end without reconnecting *)
MainTick ==
    /\ pc = "loop"
    /\ \E env \in DaemonTicks(Tasks(app)) :
         /\ ~awaits_reconnect(env)
         /\ TickEvent(env)

(* a tick whose refresh fails with a transport error: reconnect is awaited *)
MainTickFails ==
    /\ pc = "loop"
    /\ \E env \in DaemonTicks(Tasks(app)) :
         /\ awaits_reconnect(env)
         /\ app' = on_tick_refresh(app, env)
         /\ calls' = <<Call("get_state", <<>>, env.first)>>
    /\ pc' = "reconnecting"
    /\ last' = LastOf("tick", "Err")
    /\ UNCHANGED <<term, streams, frame, timer>>

(* reconnect returns, the arm ends and the next frame is drawn *)
MainReconnect ==
    /\ pc = "reconnecting"
    /\ \E env \in DaemonTicks(Tasks(app)) :
         /\ awaits_reconnect(env)
         /\ env.first = calls[1].res
         /\ Redraw(on_tick_reconnect(app, env))
         /\ calls' = tick_calls(env)
    /\ UNCHANGED <<term, last, streams, timer>>

MainQuit ==
    /\ pc = "loop"
    /\ app.app_mode.tag = "Normal"
    /\ KeyEvent(Char("q"), NoEnv)

NextMain == MainConnect \/ Start \/ MainTick \/ MainTickFails \/ MainReconnect \/ MainQuit

SpecMain == InitMain /\ [][NextMain]_vars

----------------------------------------------------------------------------
(* SpecTimer: the loop in time.  The tick arm runs when the interval is    *)
(* due; a key may arrive at any moment up to then, or while a tick is      *)
(* overdue.  Either handler waits for the daemon and keeps the loop for up *)
(* to MaxBlock time units.                                                 *)

InitTimer == InitWith({TableTerm})

TimerTick ==
    \E r \in DaemonRefreshes(Tasks(app)) : \E d \in 0..MaxBlock :
        /\ TickArm(TickOk(r.state))
        /\ timer' = elapse(interval_tick(elapse(timer, timer.due_in)), d)

TimerKey ==
    /\ pc = "loop"
    /\ \E wait \in 0..timer.due_in : \E d \in 0..MaxBlock :
         /\ KeyArm(Char("p"), Env(TRUE, Ok(Tasks(app)), TRUE, None))
         /\ timer' = elapse(elapse(timer, wait), d)

NextTimer == Start \/ TimerTick \/ TimerKey

SpecTimer == InitTimer /\ [][NextTimer]_vars

----------------------------------------------------------------------------
(* SpecWide: a table of up to MaxTaskId + 3 queued jobs, sorted by id.     *)
(* Jobs come and go between refreshes; the user moves down, removes jobs   *)
(* and filters.                                                            *)

WideSnapshots == SnapshotsOver(WideIds, {"Queued"})

WideRefreshes(cur) ==
    {s \in WideSnapshots :
        Cardinality({id \in WideIds : (id \in DOMAIN cur) /= (id \in DOMAIN s)}) <= MaxChanges}

(* after a Remove request the job is gone, with what else changed since    *)
(* the last refresh, or the daemon has not carried the request out         *)
WideEnvs(key) ==
    IF key = Key("Backspace") /\ IsSome(selected_target(app))
    THEN {Env(TRUE, r, TRUE, None) :
            r \in {Ok(Without(s, Unwrap(selected_target(app)))) :
                      s \in WideRefreshes(Tasks(app))}
                   \cup {Ok(Tasks(app)), Err(ErrUnexpected)}}
    ELSE {NoEnv}

InitWide == InitWith({TableTerm})

WideTick == \E s \in WideRefreshes(Tasks(app)) : TickEvent(TickOk(s))

WideKeyNormal ==
    /\ pc = "loop"
    /\ app.app_mode.tag = "Normal"
    /\ \E key \in {Char("j"), Key("Backspace"), Char("f")} :
         \E env \in WideEnvs(key) : KeyEvent(key, env)

WideKeyFilter ==
    /\ pc = "loop"
    /\ app.app_mode.tag = "Filter"
    /\ \E key \in {Char("z"), Key("Backspace"), Key("Enter")} :
         /\ key.code = "Char" => Len(app.filter_text) < MaxFilterLen
         /\ KeyEvent(key, NoEnv)

NextWide == Start \/ WideTick \/ WideKeyNormal \/ WideKeyFilter

SpecWide == InitWide /\ [][NextWide]_vars

----------------------------------------------------------------------------
(* SpecView: the view as a function.  The job set, the filter text and the *)
(* sort field are drawn at the start; the first draw computes the view and *)
(* synchronises the selection with it.                                     *)

ViewInputs ==
    {[NewApp EXCEPT !.state = Some(s), !.filter_text = f, !.sort_field = sf] :
        s \in SnapshotsOver(TaskIds, Statuses),
        f \in FilterTexts \cup ViewFilterTexts,
        sf \in SortFields}

InitView ==
    /\ pc = "new"
    /\ app \in ViewInputs
    /\ term = TableTerm
    /\ last = Last("new", NoKey, "Normal", None, 0, None, "-")
    /\ calls = <<>>
    /\ streams = 0
    /\ frame = None
    /\ timer = NewTimer

NextView == Start

SpecView == InitView /\ [][NextView]_vars

----------------------------------------------------------------------------
(* Properties of the selection tracker and of Filter mode, checked under   *)
(* Spec.  A step of the loop is described by the state before (app), the   *)
(* state after the redraw (app') and the event handled (last').            *)

View(a) == get_filtered_task_ids(a)
LastRow(a) == Len(View(a)) - 1
InView(a, id) == IsSome(Position(View(a), id))

SortFieldKeys == {Char("i"), Char("s"), Char("c"), Char("p")}

(* the step handled a sort-field key in Sort mode, or a refresh of the tick *)
SortChangeOrRefresh ==
    /\ pc = "loop" /\ pc' = "loop"
    /\ \/ last'.ev = "key" /\ app.app_mode.tag = "Sort" /\ last'.key \in SortFieldKeys
       \/ last'.ev = "tick"

(* C1 as stated: across sort-field changes and refreshes, a tracked job    *)
(* that is still in the job set stays tracked and the selected row is its  *)
(* rank in the new view.                                                   *)
C1_TrackedWhileInJobSet ==
    [][ ( /\ SortChangeOrRefresh
          /\ IsSome(app.selected_task_id)
          /\ Unwrap(app.selected_task_id) \in DOMAIN Tasks(app') )
        => /\ app'.selected_task_id = app.selected_task_id
           /\ app'.table_state = Position(View(app'), Unwrap(app.selected_task_id)) ]_vars

(* C1 amended: across sort-field changes and refreshes, a tracked job that *)
(* is still in the view (in the job set and matching the filter) stays     *)
(* tracked and the selected row is its rank in the new view.               *)
C1_TrackedWhileInView ==
    [][ ( /\ SortChangeOrRefresh
          /\ IsSome(app.selected_task_id)
          /\ InView(app', Unwrap(app.selected_task_id)) )
        => /\ app'.selected_task_id = app.selected_task_id
           /\ app'.table_state = Position(View(app'), Unwrap(app.selected_task_id)) ]_vars

(* a sort by command has just moved the tracked job to another row than    *)
(* the one it has in id order                                              *)
C1_Witness ==
    /\ pc = "loop"
    /\ last.ev = "key" /\ last.mode = "Sort" /\ last.key = Char("c")
    /\ app.sort_field = "Command"
    /\ IsSome(app.selected_task_id)
    /\ app.table_state = Position(View(app), Unwrap(app.selected_task_id))
    /\ app.table_state /=
         Position(View([app EXCEPT !.sort_field = "Id"]), Unwrap(app.selected_task_id))

(* C2: immediately after every redraw, in every mode, an empty view has no *)
(* selected row and no tracked id; otherwise the tracked id is in the view *)
(* and the selected row is its position.                                   *)
C2_SelectionMatchesView ==
    pc = "loop" =>
        IF View(app) = <<>>
        THEN app.table_state = None /\ app.selected_task_id = None
        ELSE /\ IsSome(app.selected_task_id)
             /\ InView(app, Unwrap(app.selected_task_id))
             /\ app.table_state = Position(View(app), Unwrap(app.selected_task_id))

(* a filtered view of several rows drawn in Log mode, selection below the  *)
(* first row                                                               *)
C2_Witness ==
    /\ pc = "loop"
    /\ app.app_mode.tag = "Log"
    /\ app.filter_text /= <<>>
    /\ Len(View(app)) >= 2
    /\ app.table_state = Some(1)

(* The Remove key on the last row and the loss of the last row, checked    *)
(* under SpecWide, whose tables have the rows it takes.                    *)

(* the step handled the Remove key on the last row of a view of at least   *)
(* two rows, the job was not Running or Paused, the request succeeded and  *)
(* the refresh brought a snapshot without the job                          *)
RemovedLastRow ==
    /\ pc = "loop" /\ pc' = "loop"
    /\ last'.ev = "key" /\ last'.key = Key("Backspace") /\ last'.op = "Ok"
    /\ ResolvesRow(app, last'.key)
    /\ Len(View(app)) >= 2
    /\ app.table_state = Some(LastRow(app))
    /\ IsSome(selected_target(app))
    /\ ~IsActive(Tasks(app)[Unwrap(selected_target(app))].status)
    /\ Unwrap(selected_target(app)) \notin DOMAIN Tasks(app')

SelectsLastRow(a) ==
    /\ View(a) /= <<>>
    /\ a.table_state = Some(LastRow(a))
    /\ a.selected_task_id = Some(View(a)[Len(View(a))])

(* C3 as stated: the Remove key on the last row, with any snapshot without *)
(* the job that leaves the view non-empty, selects the new last row and    *)
(* tracks the id there.                                                    *)
C3_RemoveLastRowAnySnapshot ==
    [][ (RemovedLastRow /\ View(app') /= <<>>) => SelectsLastRow(app') ]_vars

(* C3 amended: the Remove key on the last row selects the new last row and *)
(* tracks the id there when the new view is the old view without the       *)
(* removed job (the refresh brought no other change to the rows).          *)
C3_RemoveLastRow ==
    [][ ( /\ RemovedLastRow
          /\ View(app') = SubSeq(View(app), 1, LastRow(app)) )
        => SelectsLastRow(app') ]_vars

(* the last of three rows has just been removed and the selection is on    *)
(* the second, now the last                                                *)
C3_Witness ==
    /\ pc = "loop"
    /\ last.ev = "key" /\ last.key = Key("Backspace") /\ last.op = "Ok"
    /\ last.rows = 3 /\ last.row = Some(2)
    /\ IsSome(last.target) /\ Unwrap(last.target) \notin DOMAIN Tasks(app)
    /\ Len(View(app)) = 2
    /\ app.table_state = Some(1)

(* C4: when the tracked job was on the last row and the job set loses it   *)
(* while the view stays non-empty, the selection after the redraw is the   *)
(* new last row and the id at that row.  Stated for the steps that change  *)
(* nothing else in the view: the rows left are the rows there were.        *)
C4_LostLastRowSelectsNewLastRow ==
    [][ ( /\ pc = "loop" /\ pc' = "loop"
          /\ View(app) /= <<>>
          /\ app.table_state = Some(LastRow(app))
          /\ app.selected_task_id = Some(View(app)[Len(View(app))])
          /\ Unwrap(app.selected_task_id) \notin DOMAIN Tasks(app')
          /\ View(app') /= <<>>
          /\ View(app') = SubSeq(View(app), 1, LastRow(app)) )
        => SelectsLastRow(app') ]_vars

(* C5: a filter that matches no job leaves an empty view without selected  *)
(* row and tracked id; when the filter is cleared after that and the job   *)
(* set is not empty, the selected row is a row of the new view and the     *)
(* rank of the tracked id.                                                 *)
C5_FilterToNothingAndBack ==
    /\ [](pc = "loop" /\ app.filter_text /= <<>> /\ View(app) = <<>>
            => app.table_state = None /\ app.selected_task_id = None)
    /\ [][ ( /\ pc = "loop" /\ pc' = "loop"
             /\ app.filter_text /= <<>> /\ View(app) = <<>>
             /\ app'.filter_text = <<>>
             /\ DOMAIN Tasks(app') /= {} )
           => /\ IsSome(app'.table_state)
              /\ Unwrap(app'.table_state) < Len(View(app'))
              /\ IsSome(app'.selected_task_id)
              /\ app'.table_state = Position(View(app'), Unwrap(app'.selected_task_id)) ]_vars

(* a committed filter that matches none of the jobs of a full table *)
C5_Witness ==
    /\ pc = "loop"
    /\ app.app_mode.tag = "Normal"
    /\ app.filter_text /= <<>>
    /\ DOMAIN Tasks(app) = TaskIds
    /\ View(app) = <<>>
    /\ app.table_state = None /\ app.selected_task_id = None

(* C10: from Normal the key f enters Filter mode; in Filter mode a         *)
(* character key appends the character to the filter text, Backspace       *)
(* removes the last character (nothing on an empty text), Enter returns to *)
(* Normal with the text kept and Esc returns to Normal with an empty text. *)
C10_FilterModeTransitions ==
    [][ (pc = "loop" /\ last'.ev = "key") =>
          /\ ( /\ app.app_mode.tag = "Normal" /\ last'.key = Char("f")
               /\ ~IsSome(app.error_modal) /\ ~app.show_details )
             => app'.app_mode.tag = "Filter" /\ app'.filter_text = app.filter_text
          /\ (app.app_mode.tag = "Filter" /\ last'.key.code = "Char")
             => /\ app'.app_mode.tag = "Filter"
                /\ app'.filter_text = app.filter_text \o <<last'.key.ch>>
          /\ (app.app_mode.tag = "Filter" /\ last'.key = Key("Backspace"))
             => /\ app'.app_mode.tag = "Filter"
                /\ app'.filter_text =
                     IF app.filter_text = <<>> THEN <<>>
                     ELSE SubSeq(app.filter_text, 1, Len(app.filter_text) - 1)
          /\ (app.app_mode.tag = "Filter" /\ last'.key = Key("Enter"))
             => app'.app_mode.tag = "Normal" /\ app'.filter_text = app.filter_text
          /\ (app.app_mode.tag = "Filter" /\ last'.key = Key("Esc"))
             => app'.app_mode.tag = "Normal" /\ app'.filter_text = <<>> ]_vars

(* Enter has just committed a filter text of the greatest length *)
C10_Witness ==
    /\ pc = "loop"
    /\ last.ev = "key" /\ last.mode = "Filter" /\ last.key = Key("Enter")
    /\ app.app_mode.tag = "Normal"
    /\ Len(app.filter_text) = MaxFilterLen

(* the sort field a mnemonic key of Sort mode stands for *)
SortFieldOfKey(key) ==
    CASE key = Char("i") -> "Id"
      [] key = Char("s") -> "Status"
      [] key = Char("c") -> "Command"
      [] key = Char("p") -> "Path"

(* C11: from Normal the key s enters Sort mode; in Sort mode each of the   *)
(* keys i, s, c, p sets the sort field to Id, Status, Command, Path and    *)
(* returns to Normal; Esc returns to Normal with the sort field unchanged. *)
C11_SortModeTransitions ==
    [][ (pc = "loop" /\ last'.ev = "key") =>
          /\ ( /\ app.app_mode.tag = "Normal" /\ last'.key = Char("s")
               /\ ~IsSome(app.error_modal) /\ ~app.show_details )
             => app'.app_mode.tag = "Sort" /\ app'.sort_field = app.sort_field
          /\ (app.app_mode.tag = "Sort" /\ last'.key \in SortFieldKeys)
             => /\ app'.app_mode.tag = "Normal"
                /\ app'.sort_field = SortFieldOfKey(last'.key)
          /\ (app.app_mode.tag = "Sort" /\ last'.key = Key("Esc"))
             => app'.app_mode.tag = "Normal" /\ app'.sort_field = app.sort_field ]_vars

(* Esc has just left Sort mode while the table is sorted by path *)
C11_Witness ==
    /\ pc = "loop"
    /\ last.ev = "key" /\ last.mode = "Sort" /\ last.key = Key("Esc")
    /\ app.app_mode.tag = "Normal"
    /\ app.sort_field = "Path"

(* the step handles one of the keys in Normal mode with no overlay open *)
NormalKeyStep(keys) ==
    /\ pc = "loop" /\ last'.ev = "key" /\ last'.key \in keys
    /\ app.app_mode.tag = "Normal"
    /\ ~IsSome(app.error_modal) /\ ~app.show_details

(* C27: with a view of n > 0 rows, Down on row n-1 selects row 0 and Up on *)
(* row 0 selects row n-1, otherwise Down and Up move the row by +1 and -1; *)
(* after the key the tracked id is the id at the selected row.             *)
C27_NavigationWraps ==
    [][ (View(app) /= <<>> /\ IsSome(app.table_state)) =>
          LET n == Len(View(app))
              i == Unwrap(app.table_state)
          IN  /\ NormalKeyStep({Char("j"), Key("Down")}) =>
                   /\ app'.table_state = Some(IF i = n - 1 THEN 0 ELSE i + 1)
                   /\ app'.selected_task_id = Get(View(app), Unwrap(app'.table_state))
              /\ NormalKeyStep({Char("k"), Key("Up")}) =>
                   /\ app'.table_state = Some(IF i = 0 THEN n - 1 ELSE i - 1)
                   /\ app'.selected_task_id = Get(View(app), Unwrap(app'.table_state)) ]_vars

(* Up has just wrapped from the first row to the last of a full table *)
C27_Witness ==
    /\ pc = "loop"
    /\ last.ev = "key" /\ last.key = Char("k") /\ last.mode = "Normal"
    /\ ~app.show_details
    /\ Len(View(app)) = MaxTaskId + 1
    /\ app.table_state = Some(MaxTaskId)
    /\ app.selected_task_id = Get(View(app), MaxTaskId)

----------------------------------------------------------------------------
(* Properties of the log viewport, checked under SpecLog. *)

LogOf(a) == Unwrap(a.app_mode.log)

(* the largest offset for the buffer of ls on terminal t *)
MaxOffset(ls, t) ==
    Max(0, visual_line_count(ls, page_width_of(t)) - page_height_of(t))

ManualKeys ==
    {Char("j"), Key("Down"), Char("k"), Key("Up"), Key("PageUp"), Char("b"),
     Key("PageDown"), Char(" "), Char("d"), Char("u"), Key("Home"), Char("g")}
DownwardKeys == {Char("j"), Key("Down"), Key("PageDown"), Char(" "), Char("d")}
EndKeys == {Key("End"), Char("G")}

(* the step handled a key of K in Log mode *)
LogKeyStep(K) ==
    /\ pc = "loop" /\ pc' = "loop"
    /\ last'.ev = "key" /\ last'.key \in K
    /\ app.app_mode.tag = "Log" /\ app'.app_mode.tag = "Log"

(* C6: after every manual scroll key in Log mode the offset is at most     *)
(* max(0, visual_line_count - page_height); a downward key pressed with    *)
(* the offset at that maximum, as End leaves it, keeps it there.           *)
C6_ManualScrollClamped ==
    [][ /\ LogKeyStep(ManualKeys)
           => /\ LogOf(app').scroll_offset >= 0
              /\ LogOf(app').scroll_offset <= MaxOffset(LogOf(app'), term)
        /\ ( /\ LogKeyStep(DownwardKeys)
             /\ LogOf(app).scroll_offset = MaxOffset(LogOf(app), term) )
           => LogOf(app').scroll_offset = MaxOffset(LogOf(app'), term) ]_vars

(* a page down has just been cut short at the last page of a buffer of     *)
(* several rows                                                            *)
C6_Witness ==
    /\ pc = "loop"
    /\ last.ev = "key" /\ last.key = Char(" ")
    /\ app.app_mode.tag = "Log"
    /\ ~LogOf(app).autoscroll
    /\ LogOf(app).scroll_offset = MaxOffset(LogOf(app), term)
    /\ LogOf(app).scroll_offset > 0
    /\ LogOf(app).scroll_offset < page_height_of(term)

ChunkAppended ==
    /\ pc = "loop" /\ pc' = "loop"
    /\ last'.ev = "chunk" /\ last'.op = "data"
    /\ app'.app_mode.tag = "Log"

(* C8: when a chunk is appended in Log mode with autoscroll on, the offset *)
(* is max(0, visual_line_count - page_height) of the grown buffer; with    *)
(* autoscroll off the offset is unchanged and autoscroll stays off.        *)
C8_ChunkAppend ==
    [][ ChunkAppended
        => /\ Len(LogOf(app').logs) > Len(LogOf(app).logs)
           /\ LogOf(app).autoscroll
                => /\ LogOf(app').autoscroll
                   /\ LogOf(app').scroll_offset = MaxOffset(LogOf(app'), term)
           /\ ~LogOf(app).autoscroll
                => /\ ~LogOf(app').autoscroll
                   /\ LogOf(app').scroll_offset = LogOf(app).scroll_offset ]_vars

(* a chunk has just grown the buffer below the fold: autoscroll is off and *)
(* the offset is short of the maximum                                      *)
C8_Witness ==
    /\ pc = "loop"
    /\ last.ev = "chunk" /\ last.op = "data"
    /\ app.app_mode.tag = "Log"
    /\ ~LogOf(app).autoscroll
    /\ LogOf(app).scroll_offset < MaxOffset(LogOf(app), term)

(* C9: after a resize of the terminal in Log mode, at the next redraw the  *)
(* offset is at most max(0, visual_line_count - page_height) for the new   *)
(* size, and equal to it when autoscroll is on.                            *)
C9_ResizeReclamps ==
    [][ ( /\ pc = "loop" /\ pc' = "loop"
          /\ last'.ev = "resize"
          /\ app'.app_mode.tag = "Log" )
        => /\ LogOf(app').scroll_offset <= MaxOffset(LogOf(app'), term')
           /\ LogOf(app').autoscroll
                => LogOf(app').scroll_offset = MaxOffset(LogOf(app'), term') ]_vars

(* the log-chunk arm has handled a chunk result of one of the kinds *)
ChunkStep(kinds) == pc = "loop" /\ last'.ev = "chunk" /\ last'.op \in kinds

(* C15 as stated: when the log-chunk source yields None or an empty chunk  *)
(* the stream handle of the viewport is released.                          *)
C15_ClosedOrEmptyReleases ==
    [][ ChunkStep({"closed", "empty"}) =>
          /\ app'.app_mode.tag = "Log"
          /\ ~IsSome(LogOf(app').stream_client) ]_vars

(* C15: when the log-chunk source yields None or an error the stream       *)
(* handle of the viewport is released and the rest of the viewport is      *)
(* kept; an empty chunk leaves the viewport as it is, stream included.     *)
C15_ClosedReleasesEmptyKeeps ==
    [][ /\ ChunkStep({"closed", "error"}) =>
             /\ app'.app_mode = LogMode([LogOf(app) EXCEPT !.stream_client = None])
             /\ streams' = 0
        /\ ChunkStep({"empty"}) =>
             /\ app'.app_mode = app.app_mode
             /\ IsSome(LogOf(app').stream_client)
             /\ streams' = streams ]_vars

(* the stream has just been closed by the daemon *)
C15_Witness ==
    /\ pc = "loop"
    /\ last.ev = "chunk" /\ last.op = "closed"
    /\ app.app_mode.tag = "Log"
    /\ ~IsSome(LogOf(app).stream_client)
    /\ streams = 0

(* C30: when receiving a log chunk fails, the stream handle is released    *)
(* and no error becomes visible: the error modal and the footer error are  *)
(* unchanged, the mode stays Log, and the buffer, the scroll offset and    *)
(* the autoscroll flag are unchanged.                                      *)
C30_ChunkErrorIsSilent ==
    [][ ChunkStep({"error"}) =>
          /\ app'.app_mode.tag = "Log"
          /\ ~IsSome(LogOf(app').stream_client)
          /\ LogOf(app').logs = LogOf(app).logs
          /\ LogOf(app').scroll_offset = LogOf(app).scroll_offset
          /\ LogOf(app').autoscroll = LogOf(app).autoscroll
          /\ app'.error_modal = app.error_modal
          /\ app'.connection_error = app.connection_error ]_vars

(* the stream has just failed under a viewport scrolled away from the top *)
C30_Witness ==
    /\ pc = "loop"
    /\ last.ev = "chunk" /\ last.op = "error"
    /\ app.app_mode.tag = "Log"
    /\ ~IsSome(LogOf(app).stream_client)
    /\ LogOf(app).scroll_offset > 0
    /\ app.error_modal = None /\ app.connection_error = None

(* where a manual scroll key sends the offset before the clamp *)
ScrollTarget(key, offset, page_height) ==
    CASE key \in {Char("j"), Key("Down")} -> offset + 1
      [] key \in {Char("k"), Key("Up")} -> IF offset > 1 THEN offset - 1 ELSE 0
      [] key \in {Char(" "), Key("PageDown")} -> offset + page_height
      [] key \in {Char("b"), Key("PageUp")} ->
            IF offset > page_height THEN offset - page_height ELSE 0
      [] key = Char("d") -> offset + (page_height \div 2)
      [] key = Char("u") ->
            IF offset > page_height \div 2 THEN offset - (page_height \div 2) ELSE 0
      [] key \in {Char("g"), Key("Home")} -> 0

(* C31: in Log mode a scroll key other than End / G turns autoscroll off    *)
(* and leaves the offset at its target - one row, one page, half a page    *)
(* (integer division) down or up, not below 0, or 0 for Home / g - cut to  *)
(* the largest offset; autoscroll is off also when the offset stays; a key *)
(* that is no scroll key leaves autoscroll as it was.                      *)
C31_ScrollKeyDeltas ==
    [][ /\ LogKeyStep(ManualKeys)
           => /\ ~LogOf(app').autoscroll
              /\ LogOf(app').scroll_offset =
                    Min(ScrollTarget(last'.key, LogOf(app).scroll_offset, page_height_of(term)),
                        MaxOffset(LogOf(app'), term))
        /\ ( /\ LogKeyStep({last'.key})
             /\ last'.key \notin ManualKeys \cup EndKeys )
           => LogOf(app').autoscroll = LogOf(app).autoscroll ]_vars

(* half a page up on a page of one row: the offset stays at the last row   *)
(* of a buffer of several rows, autoscroll is off                          *)
C31_Witness ==
    /\ pc = "loop"
    /\ last.ev = "key" /\ last.key = Char("u")
    /\ app.app_mode.tag = "Log"
    /\ page_height_of(term) = 1
    /\ ~LogOf(app).autoscroll
    /\ LogOf(app).scroll_offset = MaxOffset(LogOf(app), term)
    /\ LogOf(app).scroll_offset > 1

----------------------------------------------------------------------------
(* Properties of the requests to the daemon and of their failures, checked *)
(* under SpecDaemon.                                                       *)

(* the calls of the step that returned an error *)
FailedCalls == {i \in DOMAIN calls' : ~calls'[i].res.ok}

(* the step handles key in Normal mode over a selected row *)
RowKeyStep(key) ==
    /\ pc = "loop" /\ last'.ev = "key" /\ last'.key = key
    /\ ResolvesRow(app, key)
    /\ IsSome(selected_target(app))

(* C12: Enter in Normal mode over a selected row leads to Log mode only if *)
(* the new connection and the stream request both succeeded; if either     *)
(* failed the mode stays Normal, the error modal is set and no connection  *)
(* of the attempt stays live.                                              *)
C12_OpenLogOnlyOnSuccess ==
    [][ RowKeyStep(Key("Enter")) =>
          /\ app'.app_mode.tag = "Log" =>
                /\ [i \in DOMAIN calls' |-> calls'[i].op] = <<"new", "start_log_stream">>
                /\ FailedCalls = {}
          /\ FailedCalls /= {} =>
                /\ app'.app_mode.tag = "Normal"
                /\ IsSome(app'.error_modal)
                /\ ~holds_stream(app')
                /\ streams' = 0 ]_vars

(* the connection was opened, the stream request failed *)
C12_Witness ==
    /\ pc = "loop"
    /\ last.ev = "key" /\ last.key = Key("Enter") /\ IsSome(last.target)
    /\ Len(calls) = 2 /\ calls[1].res.ok /\ ~calls[2].res.ok
    /\ app.app_mode.tag = "Normal"
    /\ IsSome(app.error_modal)
    /\ streams = 0

(* C13: at most one log connection is live, and none unless the mode is    *)
(* Log; Esc in Log mode returns to Normal and releases the connection; Log *)
(* mode is entered only from a state without a log session.                *)
C13_OneLogStream ==
    /\ [](/\ streams <= 1
          /\ app.app_mode.tag /= "Log" => streams = 0
          /\ streams = IF holds_stream(app) THEN 1 ELSE 0)
    /\ [][ /\ ( /\ pc = "loop" /\ last'.ev = "key"
                /\ app.app_mode.tag = "Log" /\ last'.key = Key("Esc") )
              => app'.app_mode.tag = "Normal" /\ streams' = 0
           /\ (app.app_mode.tag /= "Log" /\ app'.app_mode.tag = "Log")
              => streams = 0 /\ ~IsSome(app.app_mode.log) ]_vars

(* Esc has just closed a log view *)
C13_Witness ==
    /\ pc = "loop"
    /\ last.ev = "key" /\ last.mode = "Log" /\ last.key = Key("Esc")
    /\ app.app_mode.tag = "Normal"
    /\ streams = 0

(* C14: the log-chunk arm completes an iteration only from a state whose   *)
(* mode is Log and whose viewport holds a stream; in every other state of  *)
(* the loop the iteration is completed by a terminal event or a tick, and  *)
(* both a tick and a key press can be handled there.                       *)
C14_ChunkSourceParked ==
    /\ [][ pc = "loop" =>
             /\ last'.ev = "chunk" => holds_stream(app)
             /\ ~holds_stream(app) => last'.ev \in {"key", "resize", "tick"} ]_vars
    /\ [](pc = "loop" /\ ~holds_stream(app) =>
             /\ ENABLED TickEvent(TickOk(Tasks(app)))
             /\ ENABLED KeyEvent(Key("Esc"), NoEnv))

(* a tick was handled in Log mode after the stream had ended *)
C14_Witness ==
    /\ pc = "loop"
    /\ app.app_mode.tag = "Log" /\ ~holds_stream(app)
    /\ last.ev = "tick"

(* the calls of the step to one method of the connection *)
CallsOf(op) == {i \in DOMAIN calls' : calls'[i].op = op}

(* C16: the key r on a Done job issues exactly one Restart request with    *)
(* the id and the original_command, path, label and priority of the job in *)
(* the snapshot, and no Start request; on a job in any other status it     *)
(* issues exactly one Start request for the id and no Restart request.     *)
C16_RestartOrStart ==
    [][ RowKeyStep(Char("r")) =>
          LET id == Unwrap(selected_target(app))
              task == Tasks(app)[id]
          IN  IF task.status \in {"DoneSuccess", "DoneFailed", "DoneKilled"}
              THEN /\ CallsOf("start_tasks") = {}
                   /\ \E i \in DOMAIN calls' :
                        /\ CallsOf("restart_tasks") = {i}
                        /\ calls'[i].arg =
                             << [ task_id |-> id,
                                  original_command |-> task.original_command,
                                  path |-> task.path,
                                  label |-> task.label,
                                  priority |-> task.priority ] >>
              ELSE /\ CallsOf("restart_tasks") = {}
                   /\ \E i \in DOMAIN calls' :
                        /\ CallsOf("start_tasks") = {i}
                        /\ calls'[i].arg = <<id>> ]_vars

(* a Done job with a label has just been restarted *)
C16_Witness ==
    /\ pc = "loop"
    /\ last.ev = "key" /\ last.key = Char("r") /\ IsSome(last.target)
    /\ calls /= <<>>
    /\ calls[1].op = "restart_tasks"
    /\ calls[1].res.ok
    /\ IsSome(calls[1].arg[1].label)
    /\ calls[1].arg[1].original_command /= TaskCommand(calls[1].arg[1].task_id)

(* C17: no Remove request is issued for a job that is Running or Paused in *)
(* the snapshot: the remove key on such a row makes no call to the daemon, *)
(* sets no error modal and leaves job set, selection, mode, filter text    *)
(* and sort field as they are.                                             *)
C17_NoRemoveOfActiveJob ==
    [][ /\ pc = "loop" =>
             \A i \in CallsOf("remove_tasks") : \A k \in DOMAIN calls'[i].arg :
                 LET id == calls'[i].arg[k]
                 IN  id \in DOMAIN Tasks(app) =>
                        Tasks(app)[id].status \notin {"Running", "Paused"}
        /\ ( /\ RowKeyStep(Key("Backspace"))
             /\ Tasks(app)[Unwrap(selected_target(app))].status \in {"Running", "Paused"} )
           => /\ calls' = <<>>
              /\ app'.error_modal = None
              /\ app'.state = app.state
              /\ app'.table_state = app.table_state
              /\ app'.selected_task_id = app.selected_task_id
              /\ app'.app_mode = app.app_mode
              /\ app'.filter_text = app.filter_text
              /\ app'.sort_field = app.sort_field ]_vars

(* the remove key has just been pressed on the second row, a running job *)
C17_Witness ==
    /\ pc = "loop"
    /\ last.ev = "key" /\ last.key = Key("Backspace")
    /\ last.row = Some(1) /\ IsSome(last.target)
    /\ Unwrap(last.target) \in DOMAIN Tasks(app)
    /\ Tasks(app)[Unwrap(last.target)].status = "Running"
    /\ calls = <<>>
    /\ app.error_modal = None

(* the errors of the transport class *)
TransportErrors == {ErrBrokenPipe, ErrConnectionReset, ErrConnectionRefused}

(* the tick arm has run *)
TickStep == pc = "loop" /\ last'.ev = "tick"

(* C18: within one tick a reconnect is attempted if and only if the first  *)
(* refresh failed with an error of the transport class; at most one        *)
(* reconnect is attempted, and the refresh is repeated, once, if and only  *)
(* if the reconnect succeeded: at most two status requests per tick.       *)
C18_ReconnectOncePerTick ==
    [][ TickStep =>
          /\ calls' /= <<>>
          /\ \A i \in DOMAIN calls' : calls'[i].op \in {"get_state", "reconnect"}
          /\ calls'[1].op = "get_state"
          /\ CallsOf("reconnect") \subseteq {2}
          /\ CallsOf("reconnect") = {2}
                <=> (~calls'[1].res.ok /\ calls'[1].res.err \in TransportErrors)
          /\ CallsOf("get_state") \subseteq {1, 3}
          /\ 3 \in CallsOf("get_state")
                <=> (CallsOf("reconnect") = {2} /\ calls'[2].res.ok) ]_vars

(* a tick whose refresh failed, whose reconnect succeeded and whose second *)
(* refresh failed too                                                      *)
C18_Witness ==
    /\ pc = "loop"
    /\ last.ev = "tick"
    /\ Len(calls) = 3
    /\ ~calls[1].res.ok /\ calls[2].op = "reconnect" /\ calls[2].res.ok
    /\ calls[3].op = "get_state" /\ ~calls[3].res.ok

(* the last call of the step *)
LastCall == calls'[Len(calls')]

Refreshed == {i \in CallsOf("get_state") : calls'[i].res.ok}

(* C20: a failed refresh, on a tick, on the second attempt after a         *)
(* reconnect or after an action, never changes the job set: the snapshot   *)
(* is replaced only by the snapshot of a successful refresh, and once a    *)
(* snapshot is loaded the job set is never absent again.                   *)
C20_SnapshotOnlyFromRefresh ==
    [][ pc = "loop" =>
          /\ Refreshed = {} => app'.state = app.state
          /\ \A i \in Refreshed : app'.state = Some(calls'[i].res.state)
          /\ IsSome(app.state) => IsSome(app'.state) ]_vars

(* the refresh after a pause request has just failed; the jobs are shown *)
C20_Witness ==
    /\ pc = "loop"
    /\ last.ev = "key" /\ last.key = Char("p")
    /\ Len(calls) = 2
    /\ calls[1].res.ok
    /\ calls[2].op = "get_state" /\ ~calls[2].res.ok
    /\ IsSome(app.state) /\ DOMAIN Unwrap(app.state) /= {}

(* C23: no outcome of a tick stops the loop: after a tick, whether its     *)
(* refresh succeeded, failed inside or outside the transport class, or its *)
(* reconnect or second refresh failed, the application is running, the     *)
(* frame is drawn and the next tick or key can be handled.                 *)
C23_TickNeverStopsLoop ==
    /\ [][ TickStep => (app'.running /\ pc' = "loop") ]_vars
    /\ [](pc = "loop" /\ last.ev = "tick" =>
             /\ ENABLED TickEvent(TickOk(Tasks(app)))
             /\ ENABLED KeyEvent(Char("j"), NoEnv))

(* the loop goes on after a tick whose reconnect failed *)
C23_Witness ==
    /\ pc = "loop"
    /\ last.ev = "tick"
    /\ Len(calls) = 2 /\ calls[2].op = "reconnect" /\ ~calls[2].res.ok
    /\ app.running

(* the requests of the action keys and of the log-open key *)
ActionOps ==
    {"start_tasks", "restart_tasks", "pause_tasks", "kill_tasks", "remove_tasks",
     "new", "start_log_stream"}

footer_error(a) == IF a.app_mode.tag = "Log" THEN None ELSE a.connection_error

(* C21: after a step whose daemon operation succeeded (the refresh of a    *)
(* tick, a start, restart, pause, kill or remove request with the refresh  *)
(* that follows it, or a log open) no connection error is shown at the     *)
(* next redraw.                                                            *)
C21_SuccessClearsError ==
    [][ (pc = "loop" /\ calls' /= <<>> /\ LastCall.res.ok /\ pc' = "loop") =>
          footer_error(app') = None ]_vars
----------------------------------------------------------------------------
(* Properties of the view as a function of job set, filter text and sort   *)
(* field, checked under SpecView.                                          *)

(* the filter is a case-insensitive substring of a displayed column *)
Shown(id, task, filter) ==
    \/ filter = <<>>
    \/ \E column \in {to_string(id), status_display(task.status),
                       command_basename(task.command), tico(task.path)} :
          contains(to_lowercase(column), to_lowercase(filter))

(* the sort key of job a precedes that of job b; a path is compared as one *)
(* string, or component by component                                       *)
KeyBefore(tasks, sort_field, a, b, by_components) ==
    CASE sort_field = "Id" -> a < b
      [] sort_field = "Status" ->
            StrLess(status_display(tasks[a].status), status_display(tasks[b].status))
      [] sort_field = "Command" -> StrLess(tasks[a].command, tasks[b].command)
      [] sort_field = "Path" ->
            IF by_components
            THEN CompsLess(Components(tasks[a].path), Components(tasks[b].path))
            ELSE StrLess(tasks[a].path, tasks[b].path)

RowsOrdered(tasks, sort_field, a, b, by_components) ==
    \/ KeyBefore(tasks, sort_field, a, b, by_components)
    \/ ~KeyBefore(tasks, sort_field, b, a, by_components) /\ a < b

ViewIs(v, tasks, filter, sort_field, by_components) ==
    /\ \A i \in DOMAIN v : \A j \in DOMAIN v : i /= j => v[i] /= v[j]
    /\ {v[i] : i \in DOMAIN v} = {id \in DOMAIN tasks : Shown(id, tasks[id], filter)}
    /\ \A i \in DOMAIN v : \A j \in DOMAIN v :
          i < j => RowsOrdered(tasks, sort_field, v[i], v[j], by_components)

(* C29, as claimed: the view drawn holds each job whose displayed id,       *)
(* status, command basename or shortened path contains the filter          *)
(* (case-insensitively) exactly once, ordered by the sort key - Id numeric, *)
(* Status by display string, Command and Path as strings - ties by         *)
(* ascending id.                                                           *)
C29_ViewSortedByStrings ==
    pc = "loop" =>
        ViewIs(View(app), Tasks(app), app.filter_text, app.sort_field, FALSE)

(* C29, amended: the same, with Path ordered component by component *)
C29_ViewSortedByComponents ==
    pc = "loop" =>
        ViewIs(View(app), Tasks(app), app.filter_text, app.sort_field, TRUE)

C29_Witness ==
    /\ pc = "loop"
    /\ app.sort_field = "Path"
    /\ app.filter_text = <<"E">>
    /\ Len(View(app)) = MaxTaskId + 1
    /\ View(app)[1] = 1 /\ View(app)[2] = 0
    /\ app.selected_task_id = Some(1)

----------------------------------------------------------------------------
(* Properties of the start of the program and of the reconnect, checked    *)
(* under SpecMain.                                                         *)

ConnectFailed == pc = "main" /\ calls' /= <<>> /\ ~calls'[1].res.ok

(* C26: when the first connection fails the program prints the message and *)
(* ends: no App is constructed, no frame is drawn, the loop never runs.    *)
C26_NoUiWithoutConnection ==
    /\ [][ConnectFailed =>
            /\ pc' = "failed"
            /\ last'.op = <<"Failed to connect to Pueue daemon: ", calls'[1].res.err>>
            /\ app' = None
            /\ frame' = None]_vars
    /\ [](pc = "failed" => app = None /\ frame = None /\ ~ENABLED NextMain)

C26_Witness ==
    /\ pc = "failed"
    /\ calls = <<Call("connect", <<>>, Err(ErrConnectionRefused))>>

(* the footer of the last frame drawn *)
footer_shown == IF Unwrap(frame).log_view THEN None ELSE Unwrap(frame).connection_error

(* C24: while the tick arm awaits reconnect the screen shows the           *)
(* 'Reconnecting...' status, and 'Reconnection failed: ...' is on screen   *)
(* only when the reconnect or the retried refresh of the last tick failed. *)
C24_ReconnectingShown ==
    /\ pc = "reconnecting" => footer_shown = Some(Reconnecting)
    /\ (pc = "loop" /\ last.ev = "tick" /\ IsSome(footer_shown)
           /\ Unwrap(footer_shown)[1] = "Reconnection failed: ")
        => /\ Len(calls) > 1
           /\ calls[Len(calls)].op \in {"reconnect", "get_state"}
           /\ ~calls[Len(calls)].res.ok

----------------------------------------------------------------------------
(* Properties of the tick interval, checked under SpecTimer.               *)

(* how many times the interval fires without any time passing *)
RECURSIVE ticks_ready(_)
ticks_ready(t) == IF t.due_in > 0 THEN 0 ELSE 1 + ticks_ready(interval_tick(t))

(* C25: however long a handler keeps the loop, at most one tick is pending *)
(* at any time, and the tick arm never runs sooner than one tick period    *)
(* after it last ran: firings missed meanwhile are skipped.                *)
C25_MissedTicksSkipped ==
    /\ [](pc = "loop" => ticks_ready(timer) <= 1)
    /\ [][TickStep => timer.since + timer.due_in >= TickPeriod]_vars

C25_Witness ==
    /\ pc = "loop"
    /\ last.ev = "tick"
    /\ timer.lag >= 2 * TickPeriod
    /\ timer.due_in > 0

----------------------------------------------------------------------------
(* Properties of the fallback of the selection, checked under SpecWide.    *)

(* the tracked id was on a row of the view that is not the last, and the   *)
(* view drawn after the step is not empty and does not hold it             *)
TrackedLost ==
    /\ pc = "loop" /\ pc' = "loop"
    /\ IsSome(app.selected_task_id) /\ IsSome(app.table_state)
    /\ InView(app, Unwrap(app.selected_task_id))
    /\ Unwrap(app.table_state) < LastRow(app)
    /\ View(app') /= <<>>
    /\ ~InView(app', Unwrap(app.selected_task_id))

SelectsRow(a, row) ==
    /\ a.table_state = Some(row)
    /\ a.selected_task_id = Get(View(a), row)

(* the step handled the remove key and the request succeeded *)
RemoveCarriedOut ==
    /\ last'.ev = "key" /\ last'.key = Key("Backspace")
    /\ app.app_mode.tag = "Normal"
    /\ calls' /= <<>> /\ calls'[1].op = "remove_tasks" /\ calls'[1].res.ok

(* the row above the one the remove key was pressed on, if the view drawn  *)
(* has such a row                                                          *)
RowAfterRemove ==
    IF saturating_sub(Unwrap(app.table_state), 1) < Len(View(app'))
    THEN saturating_sub(Unwrap(app.table_state), 1)
    ELSE 0

(* C28, as claimed: when the tracked id, not on the last row, is filtered  *)
(* out, removed with the remove key or dropped by a refresh and the view   *)
(* stays non-empty, the redraw selects row 0 and tracks the id there.      *)
C28_LostSelectsFirstRow ==
    [][TrackedLost => SelectsRow(app', 0)]_vars

(* C28, amended: the same for a filter or a refresh; after the remove key  *)
(* the redraw selects the row above the removed one (row 0 from row 0, or  *)
(* when the view drawn has no such row) and tracks the id there.           *)
C28_LostSelectsFirstOrRowAbove ==
    [][TrackedLost =>
         SelectsRow(app', IF RemoveCarriedOut THEN RowAfterRemove ELSE 0)]_vars

(* the third of four rows has just been removed; the selection is on the   *)
(* second row                                                              *)
C28_Witness ==
    /\ pc = "loop"
    /\ last.ev = "key" /\ last.key = Key("Backspace") /\ last.op = "Ok"
    /\ last.rows = 4 /\ last.row = Some(2)
    /\ IsSome(last.target) /\ Unwrap(last.target) \notin DOMAIN Tasks(app)
    /\ Len(View(app)) = 3
    /\ app.table_state = Some(1)
    /\ app.selected_task_id = Some(View(app)[2])

(* the requests that change the daemon's jobs *)
MutatingOps ==
    {"start_tasks", "restart_tasks", "pause_tasks", "kill_tasks", "remove_tasks"}

(* the step handles one of the action keys over a selected row, and for   *)
(* Backspace the job is not active                                        *)
ActionKeyStep ==
    /\ \E key \in {Char("r"), Char("p"), Char("x"), Key("Backspace")} : RowKeyStep(key)
    /\ last'.key = Key("Backspace") =>
          ~IsActive(Tasks(app)[Unwrap(selected_target(app))].status)

(* C32: a start/restart/pause/kill/remove key press issues exactly one    *)
(* mutating request, as the first call of the step, and no other event is *)
(* handled in the step; when the request fails, with a transport error or *)
(* any other, the step makes no further call: no reconnect and no second  *)
(* attempt; when it succeeds the only call after it is the one refresh.   *)
(* No key step reconnects or issues two mutating requests.                *)
C32_OneRequestNoRetry ==
    [][ /\ (pc = "loop" /\ last'.ev = "key") =>
              /\ CallsOf("reconnect") = {}
              /\ Cardinality({i \in DOMAIN calls' : calls'[i].op \in MutatingOps}) <= 1
        /\ ActionKeyStep =>
              /\ calls' /= <<>>
              /\ calls'[1].op \in MutatingOps
              /\ IF calls'[1].res.ok
                 THEN [i \in DOMAIN calls' |-> calls'[i].op] = <<calls'[1].op, "get_state">>
                 ELSE Len(calls') = 1 ]_vars

(* a pause request failed with a transport error: it was the only call *)
C32_Witness ==
    /\ pc = "loop"
    /\ last.ev = "key" /\ last.key = Char("p")
    /\ Len(calls) = 1
    /\ calls[1].op = "pause_tasks"
    /\ ~calls[1].res.ok
    /\ is_transport_error(calls[1].res.err)
    /\ app.error_modal = Some("Failed to pause task")

(* the tick of the step reconnected while the log session held a live     *)
(* connection                                                             *)
ReconnectWithStream ==
    /\ TickStep
    /\ \E i \in CallsOf("reconnect") : calls'[i].res.ok
    /\ holds_stream(app)

(* C33 as claimed: a reconnect of the tick arm releases the live stream   *)
(* handle of the log session, so that no further chunk is awaited from it *)
C33_ReconnectClosesStream ==
    [][ ReconnectWithStream =>
          /\ ~holds_stream(app')
          /\ ~chunk_ready(app')
          /\ streams' = streams - 1 ]_vars

(* C33: a reconnect of the tick arm replaces the connection of the        *)
(* application only; the log session, which streams over a connection of  *)
(* its own, is left as it was: mode, buffer and stream handle unchanged,  *)
(* the connection still live and the log-chunk source still armed.        *)
C33_ReconnectLeavesStream ==
    [][ ReconnectWithStream =>
          /\ app'.app_mode.tag = "Log"
          /\ LogOf(app').stream_client = LogOf(app).stream_client
          /\ LogOf(app').logs = LogOf(app).logs
          /\ holds_stream(app')
          /\ chunk_ready(app')
          /\ streams' = streams ]_vars

(* a tick reconnected and refreshed during a log session whose stream is  *)
(* live                                                                   *)
C33_Witness ==
    /\ pc = "loop"
    /\ last.ev = "tick"
    /\ Len(calls) = 3
    /\ calls[2].op = "reconnect" /\ calls[2].res.ok
    /\ calls[3].res.ok
    /\ holds_stream(app)
    /\ streams = 1

----------------------------------------------------------------------------
(* App::run over the keys of every mode, the overlays of Normal mode and   *)
(* the quit key: two Queued jobs at most, a kill request and a log open    *)
(* that may fail.                                                          *)

KeysSnapshots == SnapshotsOver(DaemonIds, {"Queued"})

KeysNormalKeys ==
    {Char("q"), Key("Esc"), Char("d"), Char("j"), Char("f"), Char("s"), Char("x"),
     Key("Enter")}
KeysFilterKeys == {Char("q"), Key("Backspace"), Key("Esc"), Key("Enter")}
KeysSortKeys == {Char("q"), Key("Esc"), Char("i"), Char("x")}
KeysLogKeys == {Char("q"), Key("Esc"), Char("j")}

KeysEnvs(key) ==
    IF key = Char("x")
    THEN {Env(TRUE, Ok(Tasks(app)), TRUE, None), EnvFailing(ErrUnexpected)}
    ELSE IF key = Key("Enter")
    THEN {Env(TRUE, Err(<<>>), c, Some(<<>>)) : c \in BOOLEAN}
    ELSE {NoEnv}

InitKeys == InitWith({TableTerm})

KeysTick == \E s \in KeysSnapshots : TickEvent(TickOk(s))

KeysNormal ==
    /\ pc = "loop"
    /\ app.app_mode.tag = "Normal"
    /\ \E key \in KeysNormalKeys : \E env \in KeysEnvs(key) : KeyEvent(key, env)

KeysFilter ==
    /\ pc = "loop"
    /\ app.app_mode.tag = "Filter"
    /\ \E key \in KeysFilterKeys :
         /\ key.code = "Char" => app.filter_text = <<>>
         /\ KeyEvent(key, NoEnv)

KeysSort ==
    /\ pc = "loop"
    /\ app.app_mode.tag = "Sort"
    /\ \E key \in KeysSortKeys : KeyEvent(key, NoEnv)

KeysLog ==
    /\ pc = "loop"
    /\ app.app_mode.tag = "Log"
    /\ \E key \in KeysLogKeys : KeyEvent(key, NoEnv)

NextKeys == Start \/ KeysTick \/ KeysNormal \/ KeysFilter \/ KeysSort \/ KeysLog

SpecKeys == InitKeys /\ [][NextKeys]_vars

----------------------------------------------------------------------------
(* Claims about the overlays and the quit key, checked under SpecKeys.     *)

(* the error modal or the details overlay is up *)
Overlay(a) == IsSome(a.error_modal) \/ a.show_details

(* C34: the error modal and the details overlay are up only in Normal     *)
(* mode and never both; while one is up, a key other than Esc and q       *)
(* leaves the whole state of the application as it was and makes no call  *)
(* to the daemon.                                                         *)
C34_OverlaysSwallowKeys ==
    /\ [](Overlay(app) => /\ app.app_mode.tag = "Normal"
                          /\ ~(IsSome(app.error_modal) /\ app.show_details))
    /\ [][ ( /\ pc = "loop" /\ last'.ev = "key"
             /\ Overlay(app)
             /\ last'.key \notin {Key("Esc"), Char("q")} )
           => /\ app' = app
              /\ calls' = <<>>
              /\ streams' = streams ]_vars

(* Enter was pressed over a selected row while the details overlay was up *)
C34_Witness ==
    /\ pc = "loop"
    /\ last.ev = "key" /\ last.key = Key("Enter")
    /\ app.show_details
    /\ IsSome(app.table_state)
    /\ calls = <<>>

----------------------------------------------------------------------------
(* The job a request of a key press names, checked under Spec.             *)

(* the requests that name a job *)
TargetOps == MutatingOps \cup {"start_log_stream"}

(* the job id the call names *)
TargetOf(call) ==
    IF call.op = "restart_tasks" THEN call.arg[1].task_id ELSE call.arg[1]

(* C35: every start/restart/pause/kill/remove or log-open request of a key *)
(* press names the job id that was the tracked selection at the last       *)
(* redraw, which is the id on the row that frame highlighted, whatever     *)
(* ticks, filter and sort changes and key presses came before.             *)
C35_RequestTargetsTracked ==
    [][ (pc = "loop" /\ last'.ev = "key") =>
          \A i \in DOMAIN calls' :
             calls'[i].op \in TargetOps =>
                /\ app.selected_task_id = Some(TargetOf(calls'[i]))
                /\ IsSome(frame)
                /\ Unwrap(frame).table_state = app.table_state
                /\ Get(View(app), Unwrap(Unwrap(frame).table_state)) =
                      Some(TargetOf(calls'[i])) ]_vars

(* a remove request for the job on the second row of a filtered view whose *)
(* order differs from the order of the ids                                 *)
C35_Witness ==
    /\ pc = "loop"
    /\ last.ev = "key" /\ last.key = Key("Backspace")
    /\ last.row = Some(1)
    /\ Len(calls) > 0
    /\ calls[1].op = "remove_tasks"
    /\ app.filter_text /= <<>>
    /\ app.sort_field /= "Id"

----------------------------------------------------------------------------
(* The refresh after a request, checked under SpecDaemon.                  *)

(* the request of an action key succeeded and the refresh after it failed *)
RefreshAfterActionFailed ==
    /\ ActionKeyStep
    /\ Len(calls') = 2
    /\ calls'[1].res.ok
    /\ calls'[2].op = "get_state" /\ ~calls'[2].res.ok

(* the row above row i, row 0 for the first *)
RowAbove(i) == IF i > 0 THEN i - 1 ELSE 0

(* C36: when the refresh that follows a successful start, restart, pause, *)
(* kill or remove request fails, the failure is dropped: error modal and  *)
(* connection error are as before, no reconnect is called and the job set *)
(* is the previous snapshot; after a remove the selection moves to the    *)
(* row above in the view of that snapshot, after the others it stays.     *)
C36_RefreshFailureDropped ==
    [][ RefreshAfterActionFailed =>
          /\ app'.error_modal = app.error_modal
          /\ app'.connection_error = app.connection_error
          /\ CallsOf("reconnect") = {}
          /\ app'.state = app.state
          /\ app'.app_mode = app.app_mode
          /\ IF last'.key = Key("Backspace")
             THEN /\ app'.table_state = Some(RowAbove(Unwrap(app.table_state)))
                  /\ app'.selected_task_id =
                        Get(View(app), RowAbove(Unwrap(app.table_state)))
             ELSE /\ app'.table_state = app.table_state
                  /\ app'.selected_task_id = app.selected_task_id ]_vars

(* the refresh after a remove on the second row failed with a transport   *)
(* error while the footer held an earlier error: the selection is on the  *)
(* first row and the removed job still listed                             *)
C36_Witness ==
    /\ pc = "loop"
    /\ last.ev = "key" /\ last.key = Key("Backspace")
    /\ last.row = Some(1)
    /\ Len(calls) = 2
    /\ calls[1].res.ok /\ ~calls[2].res.ok
    /\ IsSome(app.connection_error)
    /\ app.table_state = Some(0)
    /\ Unwrap(last.target) \in DOMAIN Tasks(app)

----------------------------------------------------------------------------
(* The end of a log stream, checked under SpecLog.                         *)

(* s is a prefix of t *)
IsPrefix(s, t) == Len(s) <= Len(t) /\ SubSeq(t, 1, Len(s)) = s

(* the step stays within one log session: Esc is the only way out and     *)
(* Enter in Normal mode the only way in                                   *)
SameLogSession ==
    /\ pc = "loop" /\ pc' = "loop"
    /\ app.app_mode.tag = "Log" /\ app'.app_mode.tag = "Log"

(* C38: when the stream of a log session ends (closed by the daemon or by *)
(* an error) the mode stays Log and the buffer is kept; from then on, in  *)
(* that session, the stream handle stays None, the log-chunk source stays *)
(* parked and the buffer does not change, while the scroll keys go on     *)
(* moving the offset; within a session the buffer before a step is a      *)
(* prefix of the buffer after it.                                         *)
C38_ClosedStreamStaysClosed ==
    [][ /\ ChunkStep({"closed", "error"}) =>
              /\ app'.app_mode.tag = "Log"
              /\ LogOf(app').logs = LogOf(app).logs
              /\ ~holds_stream(app')
        /\ SameLogSession =>
              /\ IsPrefix(LogOf(app).logs, LogOf(app').logs)
              /\ ~holds_stream(app) =>
                    /\ ~holds_stream(app')
                    /\ ~chunk_ready(app')
                    /\ last'.ev /= "chunk"
                    /\ LogOf(app').logs = LogOf(app).logs
        /\ ( /\ LogKeyStep(ManualKeys) /\ ~holds_stream(app) ) =>
              LogOf(app').scroll_offset =
                 Min(ScrollTarget(last'.key, LogOf(app).scroll_offset, page_height_of(term)),
                     MaxOffset(LogOf(app'), term)) ]_vars

(* the stream has ended, the buffer is kept and the key j has scrolled it *)
C38_Witness ==
    /\ pc = "loop"
    /\ last.ev = "key" /\ last.key = Char("j")
    /\ app.app_mode.tag = "Log"
    /\ ~holds_stream(app)
    /\ Len(LogOf(app).logs) = MaxLogLen
    /\ LogOf(app).scroll_offset > 0
    /\ streams = 0

----------------------------------------------------------------------------
(* App::run with a tick interval that keeps firing: the tick arm of the    *)
(* select! is ready once per tick_rate for as long as the loop runs, so a  *)
(* tick that is due is handled at some iteration.                          *)

RecoveryTicks(cur) ==
    {TickOk(s) : s \in KeysSnapshots}
    \cup {[first |-> Err(e), reconnect |-> Ok(<<>>), retry |-> r] :
            e \in {ErrBrokenPipe, ErrUnexpected}, r \in {Ok(cur), Err(ErrBrokenPipe)}}
    \cup {[first |-> Err(ErrBrokenPipe), reconnect |-> Err(ErrConnectionRefused),
           retry |-> Err(<<>>)]}

RecoveryKeys(mode) ==
    CASE mode = "Normal" -> {Char("f"), Char("s"), Key("Enter"), Char("x"), Char("q")}
      [] mode = "Log" -> {Key("Esc"), Char("j")}
      [] OTHER -> {Key("Esc")}

RecoveryEnvs(key) ==
    IF key = Char("x")
    THEN {Env(TRUE, r, TRUE, None) : r \in {Ok(Tasks(app)), Err(ErrBrokenPipe)}}
    ELSE IF key = Key("Enter") THEN {Env(TRUE, Err(<<>>), TRUE, Some(<<>>))}
    ELSE {NoEnv}

InitRecovery == InitWith({TableTerm})

RecoveryTick ==
    /\ pc = "loop"
    /\ \E env \in RecoveryTicks(Tasks(app)) : TickEvent(env)

RecoveryKey ==
    /\ pc = "loop"
    /\ \E key \in RecoveryKeys(app.app_mode.tag) :
         \E env \in RecoveryEnvs(key) : KeyEvent(key, env)

NextRecovery == Start \/ RecoveryTick \/ RecoveryKey

SpecRecovery == InitRecovery /\ [][NextRecovery]_vars /\ WF_vars(RecoveryTick)

(* every get_state and reconnect of the step returned Ok *)
RequestsSucceed ==
    \A i \in DOMAIN calls' :
       calls'[i].op \in {"get_state", "reconnect"} => calls'[i].res.ok

(* C39: if the loop keeps running with its ticks firing and from some     *)
(* point on every status request and every reconnect succeeds, then the   *)
(* connection error is eventually None and stays None, whatever error was *)
(* recorded before and whatever the mode.                                 *)
C39_RecoveryClearsError ==
    ( [](pc /= "exited") /\ <>[][RequestsSucceed]_vars )
        => <>[](app.connection_error = None)

(* a tick in Log mode found the connection lost, reconnected and cleared  *)
(* the error                                                              *)
C39_Witness ==
    /\ pc = "loop"
    /\ last.ev = "tick"
    /\ app.app_mode.tag = "Log"
    /\ Len(calls) = 3
    /\ calls[2].op = "reconnect" /\ calls[3].res.ok
    /\ app.connection_error = None

----------------------------------------------------------------------------
(* LogState::visual_line_count, update_autoscroll and the clamp of         *)
(* handle_key over line counts around the multiples of 2^16.  The state    *)
(* holds what Paragraph::line_count returns for the buffer in place of the *)
(* buffer; the End key and the PageDown key are applied once.              *)

(* counts within CountMargin of 0, 2^16, ..., MaxWraps * 2^16 *)
LongCounts ==
    {k * (U16Max + 1) + d : k \in 0..MaxWraps, d \in 0..CountMargin}
    \cup {k * (U16Max + 1) - d : k \in 1..MaxWraps, d \in 1..CountMargin}

CountTerms == {[cols |-> 80, rows |-> r] : r \in {2, 3, 5, 24, U16Max}}

CountState(n, o, f) == [line_count |-> n, scroll_offset |-> o, autoscroll |-> f]

InitCount ==
    /\ pc = "log"
    /\ app \in {CountState(n, o, f) : n \in LongCounts, o \in {0, U16Max}, f \in BOOLEAN}
    /\ term \in CountTerms
    /\ last = Last("new", NoKey, "Log", None, 0, None, "-")
    /\ calls = <<>>
    /\ streams = 0
    /\ frame = None
    /\ timer = NewTimer

(* End or G: autoscroll is set and update_autoscroll places the offset *)
CountEnd ==
    /\ pc = "log"
    /\ app' = [app EXCEPT
                 !.autoscroll = TRUE,
                 !.scroll_offset =
                     autoscroll_offset(as_u16(app.line_count), page_height_of(term))]
    /\ pc' = "scrolled"
    /\ last' = Last("key", Key("End"), "Log", None, 0, None, "-")
    /\ UNCHANGED <<term, calls, streams, frame, timer>>

(* PageDown or space: autoscroll is cleared, the offset moved and clamped *)
CountPageDown ==
    /\ pc = "log"
    /\ app' = [app EXCEPT
                 !.autoscroll = FALSE,
                 !.scroll_offset =
                     clamp_offset(saturating_add(app.scroll_offset, page_height_of(term)),
                                  as_u16(app.line_count), page_height_of(term))]
    /\ pc' = "scrolled"
    /\ last' = Last("key", Key("PageDown"), "Log", None, 0, None, "-")
    /\ UNCHANGED <<term, calls, streams, frame, timer>>

NextCount == CountEnd \/ CountPageDown

SpecCount == InitCount /\ [][NextCount]_vars

(* the largest offset computed from the count the paragraph reports *)
TrueMaxOffset == saturating_sub(app.line_count, page_height_of(term))

(* the largest offset computed from the low 16 bits of that count *)
NarrowMaxOffset == saturating_sub(app.line_count % (U16Max + 1), page_height_of(term))

(* C40: the line count is cut to its low 16 bits before it is used.  For  *)
(* a count of at most 65535 the End key places the offset at              *)
(* max(0, count - page_height) and the clamp stops there; for a larger    *)
(* count both use the count mod 2^16, and the page at the End offset ends *)
(* before the last visual row.                                            *)
C40_LineCountNarrowed ==
    pc = "scrolled" =>
       /\ last.key = Key("End") => app.scroll_offset = NarrowMaxOffset
       /\ last.key = Key("PageDown") => app.scroll_offset <= NarrowMaxOffset
       /\ app.line_count <= U16Max => NarrowMaxOffset = TrueMaxOffset
       /\ app.line_count > U16Max =>
             /\ NarrowMaxOffset < TrueMaxOffset
             /\ app.scroll_offset + page_height_of(term) < app.line_count

(* End on a buffer of 2^16 + CountMargin visual lines and a page of one   *)
(* row: the offset is CountMargin - 1                                     *)
C40_Witness ==
    /\ pc = "scrolled"
    /\ last.key = Key("End")
    /\ app.line_count = U16Max + 1 + CountMargin
    /\ page_height_of(term) = 1
    /\ app.scroll_offset = CountMargin - 1

====
